---- MODULE Spec2Model ----
(***************************************************************************)
(* SharedController (utils/shared_controller.py): the pause / resume /     *)
(* shutdown coordinator shared by the coding agent (the Consumer) and the  *)
(* bug-finder (the Detector loop), with its mailbox of bug insights.       *)
(*                                                                         *)
(* Every method of the controller is a coroutine without an await, except  *)
(* checkpoint(), which awaits resume_event.wait() at line 92.  On the      *)
(* asyncio event loop a method therefore runs as one atomic step, and      *)
(* checkpoint() as two: up to the await, and from the await to its return. *)
(***************************************************************************)
EXTENDS Naturals, Sequences, FiniteSets

VARIABLES pause_event,       \* asyncio.Event: is_set()
          resume_event,      \* asyncio.Event: is_set()
          shutdown_event,    \* asyncio.Event: is_set()
          insights_queue,    \* asyncio.Queue, oldest first
          agent_context,     \* list of context entries
          is_paused,
          pause_reason,
          agent_turn_count,
          resume_waiter,     \* the future checkpoint() awaits in resume_event.wait()
          last_call,         \* history: the most recent call, [op, arg]
          ret,               \* history: what the most recent call returned
          injected,          \* history: the insights passed to inject_insight
                             \* since the last get_insights call
          all_injected,      \* history: the insights passed to inject_insight
                             \* since __init__, in call order
          drained,           \* history: the lists get_insights has returned,
                             \* one after the other
          \* BugFinderAgent and its task (tools/bug_finder_agent.py)
          bf_pc,             \* where the run_loop() task is
          bf_pending,        \* the insights of all_insights not yet processed
          bf_is_running,     \* BugFinderAgent.is_running
          bf_passes,         \* history: the _check_for_bugs() passes started
          bf_found,          \* history: the insights the detectors have built
          bf_cancel,         \* bug_finder_task.cancel() has been called
          \* the coding agent's task (AgentOrchestrator._run_coding_agent)
          coding_pc,         \* where the coding task is
          coding_error,      \* the exception the coding task ended with
          \* AgentOrchestrator (utils/agent_orchestrator.py)
          orch_pc,           \* where run() is
          orch_is_running,   \* AgentOrchestrator.is_running
          orch_raised,       \* the exception run() raised
          coding_statement,  \* the problem statement run_agent is called with
          coding_cancel,     \* coding_task.cancel() has been called
          sd_pc,             \* where a call of AgentOrchestrator.shutdown() from
                             \* outside run() is
          det                \* the pass of _check_for_bugs: the detector that
                             \* ran last, what it ran on, what it returned, and
                             \* the insights the detectors have returned so far

ctrlVars == <<pause_event, resume_event, shutdown_event, insights_queue,
              agent_context, is_paused, pause_reason, agent_turn_count>>

extVars == <<coding_statement, coding_cancel, sd_pc, det>>

sysVars == <<bf_pc, bf_pending, bf_is_running, bf_passes, bf_found, bf_cancel,
             coding_pc, coding_error, orch_pc, orch_is_running, orch_raised,
             extVars>>

histVars == <<injected, all_injected, drained>>

vars == <<pause_event, resume_event, shutdown_event, insights_queue,
          agent_context, is_paused, pause_reason, agent_turn_count,
          resume_waiter, last_call, ret, histVars, sysVars>>

\* Bounds of the model.
MaxTurns == 2
MaxInsights == 2
MaxContext == 6
MaxFindings == 3
MaxPasses == 2
MaxLines == 2
MaxRefs == 2
MaxFileLines == 2

\* The number of context entries get_context_summary reads (line 114).
SummaryWindow == 5

\* Python's None, and the "return value" of a call that is still suspended.
None == "None"
Suspended == [suspended |-> TRUE]

\* What a call returned, by the type of the value: Python's None, a bool, a
\* list, a str, a dict.
NoneValue == [none |-> None]

Bool(b) == [bool |-> b]

List(l) == [list |-> l]

Str(s) == [str |-> s]

Dict(d) == [dict |-> d]

\* The reasons request_pause is called with: its default, and the one the
\* bug-finder builds for a high-severity insight.
Reasons == {"Bug-finder detected an issue", "Critical bug detected: missing_import"}

\* The BugInsight records the bug-finder's detectors build (the fields the
\* controller, the policy and the summary read).
DetectorInsights ==
    { [bug_type |-> "missing_import", severity |-> "high",
       description |-> "Missing package",
       file_path |-> "app.py", line_number |-> "3",
       suggested_fix |-> "Install missing package"],
      [bug_type |-> "large_file", severity |-> "medium",
       description |-> "File is large",
       file_path |-> "big.py", line_number |-> "None",
       suggested_fix |-> "Consider breaking into smaller modules"],
      [bug_type |-> "todo_comment", severity |-> "low",
       description |-> "TODO/FIXME found",
       file_path |-> "app.py", line_number |-> "7",
       suggested_fix |-> "Address the TODO/FIXME comment"] }

\* The BugInsight records inject_insight is called with: the detectors', and
\* one a client builds without a suggested_fix (the field's default is None).
BugInsights ==
    DetectorInsights \cup
    { [bug_type |-> "custom", severity |-> "critical",
       description |-> "Reported by a client",
       file_path |-> "None", line_number |-> "None",
       suggested_fix |-> "None"] }

\* The entry inject_insight appends to agent_context.
ContextEntry(insight) == [type |-> "bug_insight", insight |-> insight]

----------------------------------------------------------------------------
\* asyncio.Event.set() on resume_event: raises the flag and, when it was
\* down, completes the future of every waiter.
resume_event_set ==
    /\ resume_event' = TRUE
    /\ resume_waiter' = IF ~resume_event /\ resume_waiter = "pending"
                        THEN "done" ELSE resume_waiter

\* Mutant: a clear() that takes back the wake-up of a waiter that has not
\* run yet (a waiter that looks at the flag again when it is scheduled).
resume_event_clear_Reparks ==
    /\ resume_event' = FALSE
    /\ resume_waiter' = IF resume_waiter = "done" THEN "pending"
                        ELSE resume_waiter

\* asyncio.Event.clear() on resume_event: lowers the flag; a future that is
\* already completed stays completed.
resume_event_clear ==
    /\ resume_event' = FALSE
    /\ UNCHANGED resume_waiter

\* AgentOrchestrator.__init__ and BugFinderAgent.__init__: no task exists
\* yet and neither object is running.
SysInit ==
    /\ bf_pc = "no_task"
    /\ bf_pending = <<>>
    /\ bf_is_running = FALSE
    /\ bf_passes = 0
    /\ bf_found = 0
    /\ bf_cancel = FALSE
    /\ coding_pc = "no_task"
    /\ coding_error = None
    /\ orch_pc = "idle"
    /\ orch_is_running = FALSE
    /\ orch_raised = None
    /\ coding_statement = <<>>
    /\ coding_cancel = FALSE
    /\ sd_pc = "idle"
    /\ det = [phase |-> "idle"]

Init ==
    /\ SysInit
    /\ pause_event = FALSE
    /\ resume_event = TRUE
    /\ shutdown_event = FALSE
    /\ insights_queue = <<>>
    /\ agent_context = <<>>
    /\ is_paused = FALSE
    /\ pause_reason = None
    /\ agent_turn_count = 0
    /\ resume_waiter = "none"
    /\ last_call = [op |-> "__init__", arg |-> None]
    /\ ret = NoneValue
    /\ injected = <<>>
    /\ all_injected = <<>>
    /\ drained = <<>>

\* Mutant: request_pause without the resume_event.clear() of line 58.
request_pause_NoClear(reason) ==
    /\ IF ~is_paused
       THEN /\ pause_event' = TRUE
            /\ is_paused' = TRUE
            /\ pause_reason' = reason
       ELSE UNCHANGED <<pause_event, is_paused, pause_reason>>
    /\ ret' = NoneValue
    /\ UNCHANGED <<resume_event, resume_waiter, shutdown_event, insights_queue,
                   agent_context, agent_turn_count>>

\* Mutant: request_pause without the "if not self.is_paused" guard of line 53.
request_pause_Unguarded(reason) ==
    /\ pause_event' = TRUE
    /\ is_paused' = TRUE
    /\ pause_reason' = reason
    /\ resume_event_clear
    /\ ret' = NoneValue
    /\ UNCHANGED <<shutdown_event, insights_queue, agent_context,
                   agent_turn_count>>

request_pause(reason) ==
    /\ IF ~is_paused
       THEN /\ pause_event' = TRUE
            /\ is_paused' = TRUE
            /\ pause_reason' = reason
            /\ resume_event_clear
       ELSE UNCHANGED <<pause_event, is_paused, pause_reason, resume_event,
                        resume_waiter>>
    /\ ret' = NoneValue
    /\ UNCHANGED <<shutdown_event, insights_queue, agent_context,
                   agent_turn_count>>

\* Mutant: inject_insight without the agent_context.append of line 71.
inject_insight_NoContext(insight) ==
    /\ insights_queue' = Append(insights_queue, insight)
    /\ ret' = NoneValue
    /\ UNCHANGED <<agent_context, pause_event, resume_event, shutdown_event,
                   is_paused, pause_reason, agent_turn_count, resume_waiter>>

\* Mutant: inject_insight that raises resume_event, to have a parked agent
\* look at the insight.
inject_insight_WakesAgent(insight) ==
    /\ insights_queue' = Append(insights_queue, insight)
    /\ agent_context' = Append(agent_context, ContextEntry(insight))
    /\ ret' = NoneValue
    /\ resume_event_set
    /\ UNCHANGED <<pause_event, shutdown_event, is_paused, pause_reason,
                   agent_turn_count>>

inject_insight(insight) ==
    /\ insights_queue' = Append(insights_queue, insight)
    /\ agent_context' = Append(agent_context, ContextEntry(insight))
    /\ ret' = NoneValue
    /\ UNCHANGED <<pause_event, resume_event, shutdown_event, is_paused,
                   pause_reason, agent_turn_count, resume_waiter>>

\* Mutant: request_resume without the resume_event.set() of line 80.
request_resume_NoSet ==
    /\ IF is_paused
       THEN /\ pause_event' = FALSE
            /\ is_paused' = FALSE
            /\ pause_reason' = None
       ELSE UNCHANGED <<pause_event, is_paused, pause_reason>>
    /\ ret' = NoneValue
    /\ UNCHANGED <<resume_event, resume_waiter, shutdown_event, insights_queue,
                   agent_context, agent_turn_count>>

\* Mutant: request_resume clearing shutdown_event where line 77 clears
\* pause_event.
request_resume_ClearsShutdown ==
    /\ IF is_paused
       THEN /\ shutdown_event' = FALSE
            /\ is_paused' = FALSE
            /\ pause_reason' = None
            /\ resume_event_set
            /\ UNCHANGED pause_event
       ELSE UNCHANGED <<pause_event, is_paused, pause_reason, resume_event,
                        resume_waiter, shutdown_event>>
    /\ ret' = NoneValue
    /\ UNCHANGED <<insights_queue, agent_context, agent_turn_count>>

\* Mutant: request_resume without the "self.pause_reason = None" of line 79.
request_resume_KeepsReason ==
    /\ IF is_paused
       THEN /\ pause_event' = FALSE
            /\ is_paused' = FALSE
            /\ resume_event_set
            /\ UNCHANGED pause_reason
       ELSE UNCHANGED <<pause_event, is_paused, pause_reason, resume_event,
                        resume_waiter>>
    /\ ret' = NoneValue
    /\ UNCHANGED <<shutdown_event, insights_queue, agent_context,
                   agent_turn_count>>

\* Mutant: request_resume without the pause_event.clear() of line 77.
request_resume_KeepsPauseEvent ==
    /\ IF is_paused
       THEN /\ is_paused' = FALSE
            /\ pause_reason' = None
            /\ resume_event_set
            /\ UNCHANGED pause_event
       ELSE UNCHANGED <<pause_event, is_paused, pause_reason, resume_event,
                        resume_waiter>>
    /\ ret' = NoneValue
    /\ UNCHANGED <<shutdown_event, insights_queue, agent_context,
                   agent_turn_count>>

request_resume ==
    /\ IF is_paused
       THEN /\ pause_event' = FALSE
            /\ is_paused' = FALSE
            /\ pause_reason' = None
            /\ resume_event_set
       ELSE UNCHANGED <<pause_event, is_paused, pause_reason, resume_event,
                        resume_waiter>>
    /\ ret' = NoneValue
    /\ UNCHANGED <<shutdown_event, insights_queue, agent_context,
                   agent_turn_count>>

\* Mutant: checkpoint counting the turn only when it does not have to wait.
checkpoint_enter_NoCountWhenParked ==
    /\ resume_waiter = "none"
    /\ IF pause_event /\ ~resume_event
       THEN /\ resume_waiter' = "pending"
            /\ ret' = Suspended
            /\ UNCHANGED agent_turn_count
       ELSE /\ resume_waiter' = "none"
            /\ ret' = Bool(~shutdown_event)
            /\ agent_turn_count' = agent_turn_count + 1
    /\ UNCHANGED <<pause_event, resume_event, shutdown_event, insights_queue,
                   agent_context, is_paused, pause_reason>>

\* Mutant: checkpoint that reports a pause to its caller instead of waiting
\* (what its docstring says: "False if paused").
checkpoint_enter_NoWait ==
    /\ resume_waiter = "none"
    /\ agent_turn_count' = agent_turn_count + 1
    /\ resume_waiter' = "none"
    /\ ret' = Bool(~pause_event /\ ~shutdown_event)
    /\ UNCHANGED <<pause_event, resume_event, shutdown_event, insights_queue,
                   agent_context, is_paused, pause_reason>>

\* Mutant: checkpoint that gives the event loop a turn on every call, so its
\* caller is suspended whether or not a pause has been requested.
checkpoint_enter_AlwaysYields ==
    /\ resume_waiter = "none"
    /\ agent_turn_count' = agent_turn_count + 1
    /\ resume_waiter' = IF pause_event /\ ~resume_event
                        THEN "pending" ELSE "done"
    /\ ret' = Suspended
    /\ UNCHANGED <<pause_event, resume_event, shutdown_event, insights_queue,
                   agent_context, is_paused, pause_reason>>

\* checkpoint(), from the call to the await of line 92 (or, when it does not
\* have to wait, to its return).  resume_event.wait() returns at once when the
\* flag is up and otherwise parks the caller on a new future.
checkpoint_enter ==
    /\ resume_waiter = "none"
    /\ agent_turn_count' = agent_turn_count + 1
    /\ IF pause_event /\ ~resume_event
       THEN /\ resume_waiter' = "pending"
            /\ ret' = Suspended
       ELSE /\ resume_waiter' = "none"
            /\ ret' = Bool(~shutdown_event)
    /\ UNCHANGED <<pause_event, resume_event, shutdown_event, insights_queue,
                   agent_context, is_paused, pause_reason>>

\* Mutant: checkpoint returning "not paused" where line 95 returns "not shut
\* down".
checkpoint_resume_ReturnsNotPaused ==
    /\ resume_waiter = "done"
    /\ resume_waiter' = "none"
    /\ ret' = Bool(~pause_event)
    /\ UNCHANGED ctrlVars

\* checkpoint(), from the completed await of line 92 to its return.
checkpoint_resume ==
    /\ resume_waiter = "done"
    /\ resume_waiter' = "none"
    /\ ret' = Bool(~shutdown_event)
    /\ UNCHANGED ctrlVars

\* The loop of get_insights: get_nowait() until the queue is empty.
\* Mutant: the drain loop putting each insight it takes at the front of the
\* list it returns.
RECURSIVE DrainLoop_NewestFirst(_, _)
DrainLoop_NewestFirst(queue, insights) ==
    IF queue = <<>> THEN insights
    ELSE DrainLoop_NewestFirst(Tail(queue), <<Head(queue)>> \o insights)

RECURSIVE DrainLoop(_, _)
DrainLoop(queue, insights) ==
    IF queue = <<>> THEN insights
    ELSE DrainLoop(Tail(queue), Append(insights, Head(queue)))

\* Mutant: get_insights with an "if" where line 100 has a "while": it takes
\* one insight only.
get_insights_OneOnly ==
    /\ ret' = List(IF insights_queue = <<>> THEN <<>>
                   ELSE <<Head(insights_queue)>>)
    /\ insights_queue' = IF insights_queue = <<>> THEN <<>> ELSE Tail(insights_queue)
    /\ UNCHANGED <<pause_event, resume_event, shutdown_event, agent_context,
                   is_paused, pause_reason, agent_turn_count, resume_waiter>>

\* Mutant: get_insights that reads the queue and leaves the insights in it.
get_insights_PeeksOnly ==
    /\ ret' = List(DrainLoop(insights_queue, <<>>))
    /\ UNCHANGED <<insights_queue, pause_event, resume_event, shutdown_event,
                   agent_context, is_paused, pause_reason, agent_turn_count,
                   resume_waiter>>

\* Mutant: get_insights that empties the context together with the queue.
get_insights_ForgetsContext ==
    /\ ret' = List(DrainLoop(insights_queue, <<>>))
    /\ insights_queue' = <<>>
    /\ agent_context' = <<>>
    /\ UNCHANGED <<pause_event, resume_event, shutdown_event, is_paused,
                   pause_reason, agent_turn_count, resume_waiter>>

get_insights ==
    /\ ret' = List(DrainLoop(insights_queue, <<>>))
    /\ insights_queue' = <<>>
    /\ UNCHANGED <<pause_event, resume_event, shutdown_event, agent_context,
                   is_paused, pause_reason, agent_turn_count, resume_waiter>>

\* Mutant: shutdown without the resume_event.set() of line 127.
shutdown_NoUnblock ==
    /\ shutdown_event' = TRUE
    /\ ret' = NoneValue
    /\ UNCHANGED <<resume_event, resume_waiter, pause_event, insights_queue,
                   agent_context, is_paused, pause_reason, agent_turn_count>>

\* str.upper() on the severities.
Upper(severity) ==
    CASE severity = "low" -> "LOW"
      [] severity = "medium" -> "MEDIUM"
      [] severity = "high" -> "HIGH"
      [] severity = "critical" -> "CRITICAL"

\* The line get_context_summary writes for an insight (line 117), as its
\* pieces.
InsightLine(insight) ==
    <<"- ", Upper(insight.severity), ": ", insight.bug_type, " - ",
      insight.description>>

\* Mutant: the slice [:5] where line 114 has [-5:].
LastEntries_First(context) ==
    SubSeq(context, 1, IF Len(context) > SummaryWindow
                       THEN SummaryWindow ELSE Len(context))

\* The slice agent_context[-5:].
LastEntries(context) ==
    SubSeq(context,
           IF Len(context) > SummaryWindow
           THEN Len(context) - SummaryWindow + 1 ELSE 1,
           Len(context))

\* The loop of get_context_summary over the entries; the summary is the
\* sequence of its lines.
RECURSIVE SummaryLoop(_, _)
SummaryLoop(entries, summary) ==
    IF entries = <<>> THEN summary
    ELSE LET entry == Head(entries)
             line == IF entry.type = "bug_insight"
                     THEN <<InsightLine(entry.insight)>>
                          \o (IF entry.insight.suggested_fix # None
                              THEN <<<<"  Suggested fix: ",
                                       entry.insight.suggested_fix>>>>
                              ELSE <<>>)
                     ELSE <<>>
         IN  SummaryLoop(Tail(entries), summary \o line)

get_context_summary ==
    /\ ret' = Str(IF agent_context = <<>>
                  THEN <<<<"No additional context.">>>>
                  ELSE SummaryLoop(LastEntries(agent_context),
                                   <<<<"Additional context from bug-finder:">>>>))
    /\ UNCHANGED <<ctrlVars, resume_waiter>>

shutdown ==
    /\ shutdown_event' = TRUE
    /\ resume_event_set
    /\ ret' = NoneValue
    /\ UNCHANGED <<pause_event, insights_queue, agent_context, is_paused,
                   pause_reason, agent_turn_count>>

----------------------------------------------------------------------------
\* The calls, made in any order by the controller's clients.
RequestPause ==
    \E reason \in Reasons :
        /\ request_pause(reason)
        /\ last_call' = [op |-> "request_pause", arg |-> reason]
        /\ UNCHANGED <<histVars, sysVars>>

InjectInsight ==
    \E insight \in BugInsights :
        /\ Len(agent_context) < MaxInsights
        /\ inject_insight(insight)
        /\ last_call' = [op |-> "inject_insight", arg |-> insight]
        /\ injected' = Append(injected, insight)
        /\ all_injected' = Append(all_injected, insight)
        /\ UNCHANGED drained
        /\ UNCHANGED sysVars

RequestResume ==
    /\ request_resume
    /\ last_call' = [op |-> "request_resume", arg |-> None]
    /\ UNCHANGED <<histVars, sysVars>>

Checkpoint ==
    /\ agent_turn_count < MaxTurns
    /\ checkpoint_enter
    /\ last_call' = [op |-> "checkpoint", arg |-> None]
    /\ UNCHANGED <<histVars, sysVars>>

CheckpointResume ==
    /\ checkpoint_resume
    /\ last_call' = [op |-> "checkpoint_resume", arg |-> None]
    /\ UNCHANGED <<histVars, sysVars>>

GetInsights ==
    /\ get_insights
    /\ last_call' = [op |-> "get_insights", arg |-> None]
    /\ injected' = <<>>
    /\ drained' = drained \o ret'.list
    /\ UNCHANGED all_injected
    /\ UNCHANGED sysVars

Shutdown ==
    /\ shutdown
    /\ last_call' = [op |-> "shutdown", arg |-> None]
    /\ UNCHANGED <<histVars, sysVars>>

GetContextSummary ==
    /\ get_context_summary
    /\ last_call' = [op |-> "get_context_summary", arg |-> None]
    /\ UNCHANGED <<histVars, sysVars>>

Next ==
    \/ RequestPause
    \/ InjectInsight
    \/ RequestResume
    \/ Checkpoint
    \/ CheckpointResume
    \/ GetInsights
    \/ Shutdown
    \/ GetContextSummary

Spec == Init /\ [][Next]_vars

\* The event loop runs every coroutine whose awaited future is completed.
FairSpec == Spec /\ WF_vars(CheckpointResume)

----------------------------------------------------------------------------
\* get_context_summary and get_insights on a controller into which up to
\* MaxContext insights have been injected (inject_insight has no guard, so
\* every sequence of insights is a context the controller can hold).
BoundedSeq(S, n) == UNION { [1..k -> S] : k \in 0..n }

SummaryInit ==
    \E insights \in BoundedSeq(BugInsights, MaxContext) :
        /\ SysInit
        /\ pause_event = FALSE
        /\ resume_event = TRUE
        /\ shutdown_event = FALSE
        /\ insights_queue = insights
        /\ agent_context = [k \in 1..Len(insights) |-> ContextEntry(insights[k])]
        /\ is_paused = FALSE
        /\ pause_reason = None
        /\ agent_turn_count = 0
        /\ resume_waiter = "none"
        /\ last_call = IF insights = <<>>
                       THEN [op |-> "__init__", arg |-> None]
                       ELSE [op |-> "inject_insight",
                             arg |-> insights[Len(insights)]]
        /\ ret = NoneValue
        /\ injected = insights
        /\ all_injected = insights
        /\ drained = <<>>

SummaryNext ==
    \/ GetContextSummary
    \/ GetInsights

SummarySpec == SummaryInit /\ [][SummaryNext]_vars

----------------------------------------------------------------------------
(***************************************************************************)
(* The orchestrated run: AgentOrchestrator.run() starts the coding task    *)
(* and the bug-finder task on one event loop.  A task runs from one await  *)
(* to its next without interruption; a step below is such a stretch, or a  *)
(* part of one, and while the bug-finder is inside a stretch (bf_pc is     *)
(* "policy" or "inject_high") no other task takes a step.                  *)
(***************************************************************************)
DetectorHoldsLoop == bf_pc \in {"policy", "inject_high"}

\* asyncio.Task.done() of the bug-finder task.
BfDone == bf_pc \in {"stopped", "cancelled"}

\* Mutant: the dispatch with "medium" in the list of line 78.
PolicyBranch_MediumPauses(insight) ==
    IF insight.severity \in {"high", "critical", "medium"} THEN "pause"
    ELSE "none"

\* Mutant: the dispatch with an "else" where line 83 has the "elif".
PolicyBranch_LowInjects(insight) ==
    IF insight.severity \in {"high", "critical"} THEN "pause"
    ELSE "inject"

\* The dispatch of lines 78-84 on an insight's severity.
PolicyBranch(insight) ==
    IF insight.severity \in {"high", "critical"} THEN "pause"
    ELSE IF insight.severity = "medium" THEN "inject"
    ELSE "none"

\* The reason of line 79.
PolicyReason(insight) == "Critical bug detected: " \o insight.bug_type

\* run_loop, line 52 with shutdown_event down: the next pass starts and waits
\* for its first detector (on the task's first run, line 49 comes before).
\* The event loop runs the first step of the coding task, which run() creates
\* first, before the first step of this task.
RunLoopStartPass ==
    /\ bf_pc \in {"created", "interval"}
    /\ coding_pc # "created"
    /\ ~bf_cancel
    /\ ~shutdown_event
    /\ bf_passes < MaxPasses
    /\ bf_pc' = "collecting"
    /\ bf_is_running' = TRUE
    /\ bf_passes' = bf_passes + 1
    /\ UNCHANGED extVars
    /\ last_call' = [op |-> "run_loop", arg |-> None]
    /\ UNCHANGED <<ctrlVars, resume_waiter, ret, histVars, bf_pending,
                   bf_found, bf_cancel, coding_pc, coding_error, orch_pc,
                   orch_is_running, orch_raised>>

\* Mutant: run_loop without the finally block of lines 57-59.
RunLoopExit_NoFinally ==
    /\ bf_pc \in {"created", "interval"}
    /\ coding_pc # "created"
    /\ ~bf_cancel
    /\ shutdown_event
    /\ bf_pc' = "stopped"
    /\ UNCHANGED extVars
    /\ last_call' = [op |-> "run_loop_exit", arg |-> None]
    /\ UNCHANGED <<ctrlVars, resume_waiter, ret, histVars, bf_pending,
                   bf_is_running, bf_passes, bf_found, bf_cancel, coding_pc,
                   coding_error, orch_pc, orch_is_running, orch_raised>>

\* Mutant: a loop head that does not look at shutdown_event ("while True").
RunLoopExit_StartsPass ==
    /\ bf_pc \in {"created", "interval"}
    /\ ~bf_cancel
    /\ shutdown_event
    /\ bf_passes <= MaxPasses
    /\ bf_pc' = "collecting"
    /\ bf_is_running' = TRUE
    /\ bf_passes' = bf_passes + 1
    /\ UNCHANGED extVars
    /\ last_call' = [op |-> "run_loop", arg |-> None]
    /\ UNCHANGED <<ctrlVars, resume_waiter, ret, histVars, bf_pending,
                   bf_found, bf_cancel, coding_pc, coding_error, orch_pc,
                   orch_is_running, orch_raised>>

\* run_loop, line 52 with shutdown_event up: the loop ends and the finally
\* block of lines 57-59 runs.
RunLoopExit ==
    /\ bf_pc \in {"created", "interval"}
    /\ coding_pc # "created"
    /\ ~bf_cancel
    /\ shutdown_event
    /\ bf_pc' = "stopped"
    /\ bf_is_running' = FALSE
    /\ UNCHANGED extVars
    /\ last_call' = [op |-> "run_loop_exit", arg |-> None]
    /\ UNCHANGED <<ctrlVars, resume_waiter, ret, histVars, bf_pending,
                   bf_passes, bf_found, bf_cancel, coding_pc, coding_error, orch_pc,
                   orch_is_running, orch_raised>>

\* _check_for_bugs, lines 63-74: the detectors have returned and their
\* insights are combined into all_insights.
CollectDone ==
    /\ bf_pc = "collecting"
    /\ ~bf_cancel
    /\ \E all_insights \in BoundedSeq(DetectorInsights,
                                       MaxFindings - bf_found) :
          /\ bf_pending' = all_insights
          /\ bf_found' = bf_found + Len(all_insights)
    /\ bf_pc' = "policy"
    /\ UNCHANGED extVars
    /\ last_call' = [op |-> "_check_for_bugs", arg |-> None]
    /\ UNCHANGED <<ctrlVars, resume_waiter, ret, histVars, bf_is_running,
                   bf_passes, bf_cancel, coding_pc, coding_error, orch_pc,
                   orch_is_running, orch_raised>>

\* Mutant: lines 79 and 80 in the other order.
PolicyPause_InjectsFirst ==
    /\ bf_pc = "policy"
    /\ bf_pending # <<>>
    /\ PolicyBranch(Head(bf_pending)) = "pause"
    /\ inject_insight(Head(bf_pending))
    /\ bf_pc' = "inject_high"
    /\ UNCHANGED extVars
    /\ last_call' = [op |-> "inject_insight", arg |-> Head(bf_pending)]
    /\ injected' = Append(injected, Head(bf_pending))
    /\ all_injected' = Append(all_injected, Head(bf_pending))
    /\ UNCHANGED drained
    /\ UNCHANGED <<bf_pending, bf_is_running, bf_passes, bf_found, bf_cancel,
                   coding_pc, coding_error, orch_pc, orch_is_running,
                   orch_raised>>

\* Line 79: request_pause for a high or critical insight.
PolicyPause ==
    /\ bf_pc = "policy"
    /\ bf_pending # <<>>
    /\ PolicyBranch(Head(bf_pending)) = "pause"
    /\ request_pause(PolicyReason(Head(bf_pending)))
    /\ bf_pc' = "inject_high"
    /\ UNCHANGED extVars
    /\ last_call' = [op |-> "request_pause",
                     arg |-> PolicyReason(Head(bf_pending))]
    /\ UNCHANGED <<histVars, bf_pending, bf_is_running, bf_passes, bf_found, bf_cancel,
                   coding_pc, coding_error, orch_pc, orch_is_running,
                   orch_raised>>

\* Mutant: the pausing branch without the inject_insight of line 80.
PolicyInjectHigh_NoInject ==
    /\ bf_pc = "inject_high"
    /\ bf_pc' = "pause_sleep"
    /\ UNCHANGED extVars
    /\ last_call' = [op |-> "inject_insight", arg |-> Head(bf_pending)]
    /\ UNCHANGED <<ctrlVars, resume_waiter, ret, histVars, bf_pending,
                   bf_is_running, bf_passes, bf_found, bf_cancel, coding_pc,
                   coding_error, orch_pc, orch_is_running, orch_raised>>

\* Lines 80-81: inject_insight for that insight, then asyncio.sleep(1).
PolicyInjectHigh ==
    /\ bf_pc = "inject_high"
    /\ inject_insight(Head(bf_pending))
    /\ bf_pc' = "pause_sleep"
    /\ UNCHANGED extVars
    /\ last_call' = [op |-> "inject_insight", arg |-> Head(bf_pending)]
    /\ injected' = Append(injected, Head(bf_pending))
    /\ all_injected' = Append(all_injected, Head(bf_pending))
    /\ UNCHANGED drained
    /\ UNCHANGED <<bf_pending, bf_is_running, bf_passes, bf_found, bf_cancel,
                   coding_pc, coding_error, orch_pc, orch_is_running,
                   orch_raised>>

\* Mutant: the pausing branch without the request_resume of line 82.
PolicyResume_NoResume ==
    /\ bf_pc = "pause_sleep"
    /\ ~bf_cancel
    /\ bf_pending' = Tail(bf_pending)
    /\ bf_pc' = "policy"
    /\ UNCHANGED extVars
    /\ last_call' = [op |-> "request_resume", arg |-> None]
    /\ UNCHANGED <<ctrlVars, resume_waiter, ret, histVars, bf_is_running,
                   bf_passes, bf_found, bf_cancel, coding_pc, coding_error,
                   orch_pc, orch_is_running, orch_raised>>

\* Line 82: the sleep is over; request_resume, and on to the next insight.
PolicyResume ==
    /\ bf_pc = "pause_sleep"
    /\ ~bf_cancel
    /\ request_resume
    /\ bf_pending' = Tail(bf_pending)
    /\ bf_pc' = "policy"
    /\ UNCHANGED extVars
    /\ last_call' = [op |-> "request_resume", arg |-> None]
    /\ UNCHANGED <<histVars, bf_is_running, bf_passes, bf_found, bf_cancel,
                   coding_pc, coding_error, orch_pc, orch_is_running,
                   orch_raised>>

\* Lines 83-84: inject_insight only, for a medium insight.
PolicyInjectMedium ==
    /\ bf_pc = "policy"
    /\ bf_pending # <<>>
    /\ PolicyBranch(Head(bf_pending)) = "inject"
    /\ inject_insight(Head(bf_pending))
    /\ bf_pending' = Tail(bf_pending)
    /\ UNCHANGED extVars
    /\ last_call' = [op |-> "inject_insight", arg |-> Head(bf_pending)]
    /\ injected' = Append(injected, Head(bf_pending))
    /\ all_injected' = Append(all_injected, Head(bf_pending))
    /\ UNCHANGED drained
    /\ UNCHANGED <<bf_pc, bf_is_running, bf_passes, bf_found, bf_cancel,
                   coding_pc, coding_error, orch_pc, orch_is_running,
                   orch_raised>>

\* Lines 77-84 for any other insight: neither branch is taken.
PolicySkip ==
    /\ bf_pc = "policy"
    /\ bf_pending # <<>>
    /\ PolicyBranch(Head(bf_pending)) = "none"
    /\ bf_pending' = Tail(bf_pending)
    /\ UNCHANGED extVars
    /\ last_call' = [op |-> "policy_skip", arg |-> Head(bf_pending)]
    /\ UNCHANGED <<ctrlVars, resume_waiter, ret, histVars, bf_pc,
                   bf_is_running, bf_passes, bf_found, bf_cancel, coding_pc,
                   coding_error, orch_pc, orch_is_running, orch_raised>>

\* Line 86 and line 54: the pass is over; asyncio.sleep(check_interval).
PolicyEnd ==
    /\ bf_pc = "policy"
    /\ bf_pending = <<>>
    /\ bf_pc' = "interval"
    /\ UNCHANGED extVars
    /\ last_call' = [op |-> "policy_end", arg |-> None]
    /\ UNCHANGED <<ctrlVars, resume_waiter, ret, histVars, bf_pending,
                   bf_is_running, bf_passes, bf_found, bf_cancel, coding_pc,
                   coding_error, orch_pc, orch_is_running, orch_raised>>

\* The cancelled bug-finder task is resumed with CancelledError at the await
\* it waits in (or is never started); no "except Exception" catches it and
\* the finally block of lines 57-59 runs.
BfCancelled ==
    /\ bf_cancel
    /\ bf_pc \in {"created", "collecting", "pause_sleep", "interval"}
    /\ bf_pc' = "cancelled"
    /\ bf_is_running' = FALSE
    /\ UNCHANGED extVars
    /\ last_call' = [op |-> "run_loop_cancelled", arg |-> None]
    /\ UNCHANGED <<ctrlVars, resume_waiter, ret, histVars, bf_pending,
                   bf_passes, bf_found, bf_cancel, coding_pc, coding_error, orch_pc,
                   orch_is_running, orch_raised>>

\* The problem statement run() is called with.
ProblemStatement == "Fix the failing test"

\* str.upper() on the bug types.
UpperBugType(bug_type) ==
    CASE bug_type = "missing_import" -> "MISSING_IMPORT"
      [] bug_type = "large_file" -> "LARGE_FILE"
      [] bug_type = "todo_comment" -> "TODO_COMMENT"
      [] bug_type = "custom" -> "CUSTOM"

\* What lines 138-146 add to the statement for one insight, as its pieces
\* (the pictographs of the format strings are left out).
InsightBlock(insight) ==
    <<UpperBugType(insight.bug_type), ": ", insight.description, "\n">>
    \o (IF insight.file_path # None
        THEN <<"   File: ", insight.file_path>>
             \o (IF insight.line_number # None
                 THEN <<":", insight.line_number>> ELSE <<>>)
             \o <<"\n">>
        ELSE <<>>)
    \o (IF insight.suggested_fix # None
        THEN <<"   Suggested fix: ", insight.suggested_fix, "\n">>
        ELSE <<>>)
    \o <<"   Severity: ", insight.severity, "\n\n">>

\* The loop of lines 137-146.
RECURSIVE EnhanceLoop(_, _)
EnhanceLoop(insights, enhanced) ==
    IF insights = <<>> THEN enhanced
    ELSE EnhanceLoop(Tail(insights), enhanced \o InsightBlock(Head(insights)))

\* Mutant: the loop of line 137 over insights[:1].
EnhanceProblemStatement_FirstOnly(original, insights) ==
    IF insights = <<>> THEN <<original>>
    ELSE EnhanceLoop(<<Head(insights)>>,
                     <<original, "\n\n", "=== BUG-FINDER INSIGHTS ===\n",
                       "The bug-finder agent has detected the following issues:\n\n">>)
         \o <<"Please address these issues in your implementation.\n",
              "==========================================\n">>

\* _enhance_problem_statement, as the pieces of the string it returns.
EnhanceProblemStatement(original, insights) ==
    IF insights = <<>> THEN <<original>>
    ELSE EnhanceLoop(insights,
                     <<original, "\n\n", "=== BUG-FINDER INSIGHTS ===\n",
                       "The bug-finder agent has detected the following issues:\n\n">>)
         \o <<"Please address these issues in your implementation.\n",
              "==========================================\n">>

\* _run_coding_agent, lines 103-115: get_insights, the statement is enhanced
\* if the list is not empty, and run_agent is started with it.
CodingStart ==
    /\ ~DetectorHoldsLoop
    /\ coding_pc = "created"
    /\ ~coding_cancel
    /\ get_insights
    /\ coding_pc' = "working"
    /\ coding_statement' =
           IF ret'.list # <<>>
           THEN EnhanceProblemStatement(ProblemStatement, ret'.list)
           ELSE <<ProblemStatement>>
    /\ UNCHANGED <<coding_cancel, sd_pc, det>>
    /\ last_call' = [op |-> "get_insights", arg |-> None]
    /\ injected' = <<>>
    /\ drained' = drained \o ret'.list
    /\ UNCHANGED all_injected
    /\ UNCHANGED <<bf_pc, bf_pending, bf_is_running, bf_passes, bf_found, bf_cancel,
                   coding_error, orch_pc, orch_is_running, orch_raised>>

\* The coding agent calls checkpoint() between two units of work; after a
\* False it goes on only to end its work loop.
CodingCheckpoint ==
    /\ ~DetectorHoldsLoop
    /\ coding_pc = "working"
    /\ ~coding_cancel
    /\ agent_turn_count < MaxTurns
    /\ checkpoint_enter
    /\ coding_pc' = IF ~(pause_event /\ ~resume_event) /\ shutdown_event
                    THEN "stopping" ELSE "working"
    /\ UNCHANGED extVars
    /\ last_call' = [op |-> "checkpoint", arg |-> None]
    /\ UNCHANGED <<histVars, bf_pc, bf_pending, bf_is_running, bf_passes, bf_found,
                   bf_cancel, coding_error, orch_pc, orch_is_running,
                   orch_raised>>

CodingCheckpointResume ==
    /\ ~DetectorHoldsLoop
    /\ coding_pc = "working"
    /\ ~coding_cancel
    /\ checkpoint_resume
    /\ coding_pc' = IF shutdown_event THEN "stopping" ELSE "working"
    /\ UNCHANGED extVars
    /\ last_call' = [op |-> "checkpoint_resume", arg |-> None]
    /\ UNCHANGED <<histVars, bf_pc, bf_pending, bf_is_running, bf_passes, bf_found,
                   bf_cancel, coding_error, orch_pc, orch_is_running,
                   orch_raised>>

\* The agent's run ends and _run_coding_agent returns its result (line 122).
CodingFinish ==
    /\ ~DetectorHoldsLoop
    /\ coding_pc \in {"working", "stopping"}
    /\ ~coding_cancel
    /\ resume_waiter = "none"
    /\ coding_pc' = "finished"
    /\ UNCHANGED extVars
    /\ last_call' = [op |-> "coding_finished", arg |-> None]
    /\ UNCHANGED <<ctrlVars, resume_waiter, ret, histVars, bf_pc, bf_pending,
                   bf_is_running, bf_passes, bf_found, bf_cancel, coding_error, orch_pc,
                   orch_is_running, orch_raised>>

\* A unit of work raises; _run_coding_agent logs and re-raises (lines 124-126).
CodingFail ==
    /\ ~DetectorHoldsLoop
    /\ coding_pc = "working"
    /\ ~coding_cancel
    /\ resume_waiter = "none"
    /\ coding_pc' = "failed"
    /\ coding_error' = "AgentError"
    /\ UNCHANGED extVars
    /\ last_call' = [op |-> "coding_failed", arg |-> None]
    /\ UNCHANGED <<ctrlVars, resume_waiter, ret, histVars, bf_pc, bf_pending,
                   bf_is_running, bf_passes, bf_found, bf_cancel, orch_pc,
                   orch_is_running, orch_raised>>

\* run(), lines 70-83: both tasks are created and run() awaits the coding
\* task.
OrchRun ==
    /\ orch_pc = "idle"
    /\ orch_is_running' = TRUE
    /\ coding_pc' = "created"
    /\ bf_pc' = "created"
    /\ orch_pc' = "await_coding"
    /\ UNCHANGED extVars
    /\ last_call' = [op |-> "run", arg |-> None]
    /\ UNCHANGED <<ctrlVars, resume_waiter, ret, histVars, bf_pending,
                   bf_is_running, bf_passes, bf_found, bf_cancel, coding_error,
                   orch_raised>>

\* Mutant: run() without the await of the bug-finder task (lines 87-88).
OrchCodingDone_NoJoin ==
    /\ ~DetectorHoldsLoop
    /\ orch_pc = "await_coding"
    /\ coding_pc = "finished"
    /\ shutdown
    /\ orch_pc' = "returned"
    /\ orch_is_running' = FALSE
    /\ UNCHANGED extVars
    /\ last_call' = [op |-> "shutdown", arg |-> None]
    /\ UNCHANGED <<histVars, bf_pc, bf_pending, bf_is_running, bf_passes,
                   bf_found, bf_cancel, coding_pc, coding_error, orch_raised>>

\* run(), lines 83-88: the coding task has returned; controller.shutdown(),
\* then run() awaits the bug-finder task.
OrchCodingDone ==
    /\ ~DetectorHoldsLoop
    /\ orch_pc = "await_coding"
    /\ coding_pc = "finished"
    /\ shutdown
    /\ orch_pc' = "await_bf"
    /\ UNCHANGED extVars
    /\ last_call' = [op |-> "shutdown", arg |-> None]
    /\ UNCHANGED <<histVars, bf_pc, bf_pending, bf_is_running, bf_passes, bf_found,
                   bf_cancel, coding_pc, coding_error, orch_is_running,
                   orch_raised>>

\* run(), lines 88-97: the bug-finder task has ended; run() returns.
OrchJoined ==
    /\ ~DetectorHoldsLoop
    /\ orch_pc = "await_bf"
    /\ bf_pc = "stopped"
    /\ orch_pc' = "returned"
    /\ orch_is_running' = FALSE
    /\ UNCHANGED extVars
    /\ last_call' = [op |-> "run_returned", arg |-> None]
    /\ UNCHANGED <<ctrlVars, resume_waiter, ret, histVars, bf_pc, bf_pending,
                   bf_is_running, bf_passes, bf_found, bf_cancel, coding_pc,
                   coding_error, orch_raised>>

\* Mutant: the except clause of run() without the call of shutdown() (line 94).
OrchCodingFailed_NoShutdown ==
    /\ ~DetectorHoldsLoop
    /\ orch_pc = "await_coding"
    /\ coding_pc = "failed"
    /\ orch_is_running' = FALSE
    /\ orch_raised' = coding_error
    /\ orch_pc' = "raised"
    /\ UNCHANGED extVars
    /\ last_call' = [op |-> "run_raised", arg |-> None]
    /\ UNCHANGED <<ctrlVars, resume_waiter, ret, histVars, bf_pc, bf_pending,
                   bf_is_running, bf_passes, bf_found, bf_cancel, coding_pc,
                   coding_error>>

\* run(), lines 83 and 92-94, and shutdown(), lines 153-171: the coding task
\* has raised; controller.shutdown(); the coding task is done and is not
\* cancelled; the bug-finder task is cancelled unless it is done, and awaited.
OrchCodingFailed ==
    /\ ~DetectorHoldsLoop
    /\ orch_pc = "await_coding"
    /\ coding_pc = "failed"
    /\ shutdown
    /\ bf_cancel' = ~BfDone
    /\ orch_pc' = "shutdown_await_bf"
    /\ UNCHANGED extVars
    /\ last_call' = [op |-> "shutdown", arg |-> None]
    /\ UNCHANGED <<histVars, bf_pc, bf_pending, bf_is_running, bf_passes, bf_found,
                   coding_pc, coding_error, orch_is_running, orch_raised>>

\* shutdown(), lines 171-176, and run(), lines 95-97: the bug-finder task has
\* ended, its CancelledError is swallowed, and run() re-raises the exception
\* of the coding task.
OrchShutdownJoined ==
    /\ ~DetectorHoldsLoop
    /\ orch_pc = "shutdown_await_bf"
    /\ BfDone
    /\ orch_is_running' = FALSE
    /\ orch_raised' = coding_error
    /\ orch_pc' = "raised"
    /\ UNCHANGED extVars
    /\ last_call' = [op |-> "run_raised", arg |-> None]
    /\ UNCHANGED <<ctrlVars, resume_waiter, ret, histVars, bf_pc, bf_pending,
                   bf_is_running, bf_passes, bf_found, bf_cancel, coding_pc,
                   coding_error>>

SystemNext ==
    \/ OrchRun
    \/ OrchCodingDone
    \/ OrchJoined
    \/ OrchCodingFailed
    \/ OrchShutdownJoined
    \/ CodingStart
    \/ CodingCheckpoint
    \/ CodingCheckpointResume
    \/ CodingFinish
    \/ CodingFail
    \/ RunLoopStartPass
    \/ RunLoopExit
    \/ CollectDone
    \/ PolicyPause
    \/ PolicyInjectHigh
    \/ PolicyResume
    \/ PolicyInjectMedium
    \/ PolicySkip
    \/ PolicyEnd
    \/ BfCancelled

SystemSpec == Init /\ [][SystemNext]_vars

\* The event loop runs every task that is ready: a sleep ends, a detector's
\* subprocess returns, an awaited task or future is done.  The coding agent's
\* own progress (finishing or failing) is not assumed.
SystemFairSpec ==
    /\ SystemSpec
    /\ WF_vars(RunLoopStartPass) /\ WF_vars(RunLoopExit) /\ WF_vars(CollectDone)
    /\ WF_vars(PolicyPause) /\ WF_vars(PolicyInjectHigh) /\ WF_vars(PolicyResume)
    /\ WF_vars(PolicyInjectMedium) /\ WF_vars(PolicySkip) /\ WF_vars(PolicyEnd)
    /\ WF_vars(BfCancelled) /\ WF_vars(CodingCheckpointResume)
    /\ WF_vars(OrchRun) /\ WF_vars(OrchCodingDone) /\ WF_vars(OrchJoined)
    /\ WF_vars(OrchCodingFailed) /\ WF_vars(OrchShutdownJoined)

----------------------------------------------------------------------------
(***************************************************************************)
(* AgentOrchestrator.shutdown() called from outside run(), by another      *)
(* coroutine of the same event loop, once run() has been started.          *)
(***************************************************************************)
\* not task.done() of lines 161 and 168, for a task that exists.
CodingActive == coding_pc \in {"created", "working", "stopping"}

BfActive == bf_pc \notin {"no_task", "stopped", "cancelled"}

\* Mutant: shutdown() without the cancel and await of the coding task
\* (lines 161-166).
OrchShutdownCall_SkipsCoding ==
    /\ ~DetectorHoldsLoop
    /\ sd_pc = "idle"
    /\ orch_pc # "idle"
    /\ shutdown
    /\ IF BfActive
       THEN /\ bf_cancel' = TRUE
            /\ sd_pc' = "await_bf"
            /\ UNCHANGED <<coding_cancel, orch_is_running>>
       ELSE /\ sd_pc' = "returned"
            /\ orch_is_running' = FALSE
            /\ UNCHANGED <<coding_cancel, bf_cancel>>
    /\ last_call' = [op |-> "orchestrator_shutdown", arg |-> None]
    /\ UNCHANGED <<histVars, bf_pc, bf_pending, bf_is_running, bf_passes,
                   bf_found, coding_pc, coding_error, orch_pc, orch_raised,
                   coding_statement, det>>

\* shutdown(), lines 153-164 (or -171, or -176): controller.shutdown(); the
\* first task that is not done is cancelled and awaited; with both done
\* shutdown() returns.
OrchShutdownCall ==
    /\ ~DetectorHoldsLoop
    /\ sd_pc = "idle"
    /\ orch_pc # "idle"
    /\ shutdown
    /\ IF CodingActive
       THEN /\ coding_cancel' = TRUE
            /\ sd_pc' = "await_coding"
            /\ UNCHANGED <<bf_cancel, orch_is_running>>
       ELSE IF BfActive
       THEN /\ bf_cancel' = TRUE
            /\ sd_pc' = "await_bf"
            /\ UNCHANGED <<coding_cancel, orch_is_running>>
       ELSE /\ sd_pc' = "returned"
            /\ orch_is_running' = FALSE
            /\ UNCHANGED <<coding_cancel, bf_cancel>>
    /\ last_call' = [op |-> "orchestrator_shutdown", arg |-> None]
    /\ UNCHANGED <<histVars, bf_pc, bf_pending, bf_is_running, bf_passes,
                   bf_found, coding_pc, coding_error, orch_pc, orch_raised,
                   coding_statement, det>>

\* The cancelled coding task is resumed with CancelledError at its await
\* (line 115, or a wait inside checkpoint()), or is never started; the
\* "except Exception" of line 124 re-raises it if it catches it at all.
CodingCancelled ==
    /\ ~DetectorHoldsLoop
    /\ coding_cancel
    /\ CodingActive
    /\ coding_pc' = "cancelled"
    /\ resume_waiter' = "none"
    /\ last_call' = [op |-> "coding_cancelled", arg |-> None]
    /\ UNCHANGED <<ctrlVars, ret, histVars, bf_pc, bf_pending, bf_is_running,
                   bf_passes, bf_found, bf_cancel, coding_error, orch_pc,
                   orch_is_running, orch_raised, extVars>>

\* shutdown(), lines 164-171 (or -176): the coding task has ended and its
\* CancelledError is swallowed; the bug-finder task is cancelled unless it is
\* done, and awaited.
SdCodingJoined ==
    /\ ~DetectorHoldsLoop
    /\ sd_pc = "await_coding"
    /\ ~CodingActive
    /\ IF BfActive
       THEN /\ bf_cancel' = TRUE
            /\ sd_pc' = "await_bf"
            /\ UNCHANGED orch_is_running
       ELSE /\ sd_pc' = "returned"
            /\ orch_is_running' = FALSE
            /\ UNCHANGED bf_cancel
    /\ last_call' = [op |-> "orchestrator_shutdown_joined_coding",
                     arg |-> None]
    /\ UNCHANGED <<ctrlVars, resume_waiter, ret, histVars, bf_pc, bf_pending,
                   bf_is_running, bf_passes, bf_found, coding_pc,
                   coding_error, orch_pc, orch_raised, coding_statement,
                   coding_cancel, det>>

\* shutdown(), lines 171-176: the bug-finder task has ended, its
\* CancelledError is swallowed, and shutdown() returns.
SdBfJoined ==
    /\ ~DetectorHoldsLoop
    /\ sd_pc = "await_bf"
    /\ BfDone
    /\ sd_pc' = "returned"
    /\ orch_is_running' = FALSE
    /\ last_call' = [op |-> "orchestrator_shutdown_returned", arg |-> None]
    /\ UNCHANGED <<ctrlVars, resume_waiter, ret, histVars, bf_pc, bf_pending,
                   bf_is_running, bf_passes, bf_found, bf_cancel, coding_pc,
                   coding_error, orch_pc, orch_raised, coding_statement,
                   coding_cancel, det>>

\* run(), line 83 or line 88: the task run() awaits has been cancelled; the
\* CancelledError is no Exception, so line 92 does not catch it, the finally
\* block runs and run() ends with it.
OrchRunCancelled ==
    /\ ~DetectorHoldsLoop
    /\ \/ orch_pc = "await_coding" /\ coding_pc = "cancelled"
       \/ orch_pc = "await_bf" /\ bf_pc = "cancelled"
    /\ orch_pc' = "cancelled"
    /\ orch_is_running' = FALSE
    /\ last_call' = [op |-> "run_cancelled", arg |-> None]
    /\ UNCHANGED <<ctrlVars, resume_waiter, ret, histVars, bf_pc, bf_pending,
                   bf_is_running, bf_passes, bf_found, bf_cancel, coding_pc,
                   coding_error, orch_raised, extVars>>

ShutdownNext ==
    \/ SystemNext
    \/ OrchShutdownCall
    \/ CodingCancelled
    \/ SdCodingJoined
    \/ SdBfJoined
    \/ OrchRunCancelled

ShutdownSpec == Init /\ [][ShutdownNext]_vars

ShutdownFairSpec ==
    /\ ShutdownSpec
    /\ WF_vars(RunLoopStartPass) /\ WF_vars(RunLoopExit) /\ WF_vars(CollectDone)
    /\ WF_vars(PolicyPause) /\ WF_vars(PolicyInjectHigh) /\ WF_vars(PolicyResume)
    /\ WF_vars(PolicyInjectMedium) /\ WF_vars(PolicySkip) /\ WF_vars(PolicyEnd)
    /\ WF_vars(BfCancelled) /\ WF_vars(CodingCancelled)
    /\ WF_vars(SdCodingJoined) /\ WF_vars(SdBfJoined)
    /\ WF_vars(OrchRunCancelled)

----------------------------------------------------------------------------
\* run() on a controller into which a client has injected insights before:
\* the tasks are created and the coding task takes its first step.
EnhanceNext ==
    \/ OrchRun
    \/ CodingStart

EnhanceSpec == SummaryInit /\ [][EnhanceNext]_vars

----------------------------------------------------------------------------
\* The dict get_status() returns.
StatusDict ==
    [is_running |-> orch_is_running,
     coding_agent_running |-> CodingActive,
     bug_finder_running |-> BfActive,
     is_paused |-> is_paused,
     pause_reason |-> pause_reason,
     turn_count |-> agent_turn_count,
     insights_count |-> Len(insights_queue)]

\* Mutant: get_status counting the insights by taking them out of the queue.
get_status_CountsByDraining ==
    /\ ret' = Dict(StatusDict)
    /\ insights_queue' = <<>>
    /\ UNCHANGED <<pause_event, resume_event, shutdown_event, agent_context,
                   is_paused, pause_reason, agent_turn_count, resume_waiter>>

get_status ==
    /\ ret' = Dict(StatusDict)
    /\ UNCHANGED <<ctrlVars, resume_waiter>>

\* A call of get_status() by another coroutine of the event loop.
GetStatus ==
    /\ ~DetectorHoldsLoop
    /\ get_status
    /\ last_call' = [op |-> "get_status", arg |-> None]
    /\ UNCHANGED <<histVars, sysVars>>

StatusNext ==
    \/ SystemNext
    \/ GetStatus

StatusSpec == Init /\ [][StatusNext]_vars

----------------------------------------------------------------------------
(***************************************************************************)
(* The detectors of _check_for_bugs.  What a detector finds is a function  *)
(* of what the workspace holds and of what the tools it runs do; a pass    *)
(* takes both as its input.                                                *)
(***************************************************************************)
\* What running a command can do: it cannot be started
\* (create_subprocess_exec raises), or it runs and exits.
Started(returncode, stdout, stderr) ==
    [launch |-> "ok", returncode |-> returncode, stdout |-> stdout,
     stderr |-> stderr]

NotStarted == [launch |-> "fails", error |-> "No such file or directory"]

\* _run_command: the CompletedProcess it returns; it never raises.
run_command(proc) ==
    IF proc.launch = "fails"
    THEN [raised |-> FALSE, returncode |-> 1, stdout |-> <<>>,
          stderr |-> proc.error]
    ELSE [raised |-> FALSE, returncode |-> proc.returncode,
          stdout |-> proc.stdout, stderr |-> proc.stderr]

\* The lines of a linter's stdout.  A line is the list line.split(':', 3)
\* gives: at most four parts.
WellFormedLines ==
    { <<"app.py", "3", "1", "E501 line too long">>,
      <<"app.py", "7", "5", "W605 warning: invalid escape">>,
      <<"app.py", "7", "1", "E999 SyntaxError: invalid syntax">> }

ShortLine == <<"1 file checked">>

NonNumericLine == <<"note", " see https", "//flake8.pycqa.org", " rules">>

LinterLines == WellFormedLines \cup {ShortLine, NonNumericLine}

\* int(text) succeeds.
IsInt(text) == text \in {"1", "3", "5", "7"}

\* "error" in message.lower(), "warning" in message.lower().
ContainsError(message) == message \in {"E999 SyntaxError: invalid syntax"}

ContainsWarning(message) == message \in {"W605 warning: invalid escape"}

\* Lines 318-324.
LintSeverity(message) ==
    IF ContainsError(message) THEN "high"
    ELSE IF ContainsWarning(message) THEN "medium"
    ELSE "low"

\* Lines 326-333.
LintInsight(parts) ==
    [bug_type |-> "linting_error", severity |-> LintSeverity(parts[4]),
     description |-> parts[4],
     file_path |-> parts[1], line_number |-> parts[2],
     suggested_fix |-> "Fix linting issue: " \o parts[4]]

\* The loop of lines 309-333: a line of fewer than four parts is passed over;
\* int() of lines 314-315 raises ValueError on a part that is no number.
RECURSIVE ParseLoop(_, _)
ParseLoop(lines, insights) ==
    IF lines = <<>> THEN [raised |-> FALSE, insights |-> insights]
    ELSE LET parts == Head(lines)
         IN  IF Len(parts) >= 4
             THEN IF IsInt(parts[2]) /\ IsInt(parts[3])
                  THEN ParseLoop(Tail(lines),
                                 Append(insights, LintInsight(parts)))
                  ELSE [raised |-> TRUE, insights |-> <<>>]
             ELSE ParseLoop(Tail(lines), insights)

\* _parse_linter_output: the list it returns, or that it raises.
parse_linter_output(stdout, linter_type) ==
    IF linter_type = "python" /\ stdout # <<>>
    THEN ParseLoop(stdout, <<>>)
    ELSE [raised |-> FALSE, insights |-> <<>>]

\* The keys of self.linters, in the order of the dict.
LinterTypes == <<"python", "javascript", "typescript">>

\* Mutant: the body of the loop of _run_linters without the try of line 96.
LintOfType_NoExcept(file_type, lint) ==
    IF ~lint[file_type].files THEN [raised |-> FALSE, insights |-> <<>>]
    ELSE LET result == run_command(lint[file_type].proc)
         IN  IF result.raised THEN [raised |-> TRUE, insights |-> <<>>]
             ELSE IF result.returncode # 0
             THEN parse_linter_output(result.stdout, file_type)
             ELSE [raised |-> FALSE, insights |-> <<>>]

\* One round of the loop of lines 95-108: what the linter of file_type adds to
\* insights.  lint[file_type] says whether files of the type exist and what
\* running the linter does.  Whatever is raised is caught by line 107.
LintOfType(file_type, lint) ==
    IF ~lint[file_type].files THEN [raised |-> FALSE, insights |-> <<>>]
    ELSE LET result == run_command(lint[file_type].proc)
         IN  IF result.raised THEN [raised |-> FALSE, insights |-> <<>>]
             ELSE IF result.returncode # 0
             THEN LET parsed == parse_linter_output(result.stdout, file_type)
                  IN  IF parsed.raised
                      THEN [raised |-> FALSE, insights |-> <<>>]
                      ELSE parsed
             ELSE [raised |-> FALSE, insights |-> <<>>]

\* The loop of lines 95-108.
RECURSIVE LintLoop(_, _, _)
LintLoop(types, lint, insights) ==
    IF types = <<>> THEN [raised |-> FALSE, insights |-> insights]
    ELSE LET r == LintOfType(Head(types), lint)
         IN  IF r.raised THEN [raised |-> TRUE, insights |-> <<>>]
             ELSE LintLoop(Tail(types), lint, insights \o r.insights)

\* _run_linters.
run_linters(lint) == LintLoop(LinterTypes, lint, <<>>)

\* Lines 124-129.  Every stderr text of the model is shorter than the 200
\* characters line 126 keeps, so the slice keeps it whole.
TestFailure(stderr) ==
    [bug_type |-> "test_failure", severity |-> "high",
     description |-> "Tests failed: " \o stderr,
     file_path |-> "None", line_number |-> "None",
     suggested_fix |-> "Review test failures and fix implementation"]

\* Mutant: _run_tests without the test of line 119.
run_tests_NoFileTest(tests) ==
    LET result == run_command(tests.proc)
    IN  IF result.raised
        THEN [raised |-> FALSE, insights |-> <<>>, runs |-> 1]
        ELSE IF result.returncode # 0
        THEN [raised |-> FALSE,
              insights |-> <<TestFailure(result.stderr)>>, runs |-> 1]
        ELSE [raised |-> FALSE, insights |-> <<>>, runs |-> 1]

\* _run_tests: the insights it returns and how many times it ran pytest.
\* tests.test_files says whether lines 116-117 find a test file.
run_tests(tests) ==
    IF ~tests.test_files
    THEN [raised |-> FALSE, insights |-> <<>>, runs |-> 0]
    ELSE LET result == run_command(tests.proc)
         IN  IF result.raised
             THEN [raised |-> FALSE, insights |-> <<>>, runs |-> 1]
             ELSE IF result.returncode # 0
             THEN [raised |-> FALSE,
                   insights |-> <<TestFailure(result.stderr)>>, runs |-> 1]
             ELSE [raised |-> FALSE, insights |-> <<>>, runs |-> 1]

\* st_size above which line 186 reports a file.
LargeFileBytes == 10000

\* The lines a source file can hold.
LineTexts ==
    {"x = 1", "# TODO tidy up", "# todo: later", "raise FixMe",
     "# TODO or FIXME"}

\* str.upper() on the lines.
UpperLine(line) ==
    CASE line = "x = 1" -> "X = 1"
      [] line = "# TODO tidy up" -> "# TODO TIDY UP"
      [] line = "# todo: later" -> "# TODO: LATER"
      [] line = "raise FixMe" -> "RAISE FIXME"
      [] line = "# TODO or FIXME" -> "# TODO OR FIXME"
      [] line = "def f(:" -> "DEF F(:"

\* 'TODO' in text, 'FIXME' in text.
ContainsTodo(text) ==
    text \in {"# TODO tidy up", "# TODO or FIXME", "# TODO TIDY UP",
              "# TODO: LATER", "# TODO OR FIXME"}

ContainsFixme(text) ==
    text \in {"# TODO or FIXME", "RAISE FIXME", "# TODO OR FIXME"}

\* Mutant: the test of line 165 on the line as it is written.
MatchesTodo_CaseSensitive(line) == ContainsTodo(line) \/ ContainsFixme(line)

\* The test of line 165.
MatchesTodo(line) ==
    ContainsTodo(UpperLine(line)) \/ ContainsFixme(UpperLine(line))

\* The line number enumerate(lines, 1) gives to the i-th line, as a numeral.
LineNumber(i) == <<"1", "2", "3", "4", "5", "6", "7", "8", "9">>[i]

\* Lines 166-173.  No line of the model has leading or trailing white space,
\* so line.strip() is the line.
TodoInsight(file, i) ==
    [bug_type |-> "todo_comment", severity |-> "low",
     description |-> "TODO/FIXME found: " \o file.lines[i],
     file_path |-> file.path, line_number |-> LineNumber(i),
     suggested_fix |-> "Address the TODO/FIXME comment"]

\* The loop of lines 164-173 over the lines of one file, from line i on.
RECURSIVE TodoLoop(_, _)
TodoLoop(file, i) ==
    IF i > Len(file.lines) THEN <<>>
    ELSE (IF MatchesTodo(file.lines[i])
          THEN <<TodoInsight(file, i)>> ELSE <<>>)
         \o TodoLoop(file, i + 1)

\* _check_todo_comments: open() of a file that cannot be read raises, which
\* line 174 catches, and the loop goes to the next file.
RECURSIVE check_todo_comments(_)
check_todo_comments(files) ==
    IF files = <<>> THEN <<>>
    ELSE LET file == Head(files)
         IN  (IF file.readable THEN TodoLoop(file, 1) ELSE <<>>)
             \o check_todo_comments(Tail(files))

\* Lines 187-193.
LargeFileInsight(file) ==
    [bug_type |-> "large_file", severity |-> "medium",
     description |-> "File is large: " \o file.path,
     file_path |-> file.path, line_number |-> "None",
     suggested_fix |-> "Consider breaking into smaller modules"]

\* _check_large_files.
RECURSIVE check_large_files(_)
check_large_files(files) ==
    IF files = <<>> THEN <<>>
    ELSE LET file == Head(files)
         IN  (IF file.size > LargeFileBytes
              THEN <<LargeFileInsight(file)>> ELSE <<>>)
             \o check_large_files(Tail(files))

\* sys.stdlib_module_names, as far as the model's references go.
StdlibModuleNames == {"json"}

\* A module name is the list of its dotted components.
RECURSIVE Dotted(_)
Dotted(mod) ==
    IF Len(mod) = 1 THEN mod[1] ELSE mod[1] \o "." \o Dotted(Tail(mod))

\* top_level, lines 208-209: mod.split(".")[0].
top_level(mod) == Head(mod)

\* What __import__(module_name) of line 244 does with a reference: the module
\* is not found (ModuleNotFoundError, an ImportError), or it is found and
\* its code runs, which may raise.
ImportOutcome(ref) ==
    IF ~ref.found THEN "ImportError" ELSE ref.load

\* Lines 249-256.
MissingImport(file, ref) ==
    [bug_type |-> "missing_import", severity |-> "high",
     description |-> "Missing package: " \o Dotted(ref.module),
     file_path |-> file.path, line_number |-> ref.lineno,
     suggested_fix |-> "Install missing package: pip install "
                           \o top_level(ref.module)]

\* Lines 260-267.
ImportError(file, ref) ==
    [bug_type |-> "import_error", severity |-> "medium",
     description |-> "Import error for " \o Dotted(ref.module),
     file_path |-> file.path, line_number |-> ref.lineno,
     suggested_fix |-> "Check if " \o Dotted(ref.module)
                           \o " is properly installed and accessible"]

\* The loop of lines 236-271 over the references of one file.  A relative
\* reference (level > 0) is not collected by lines 229-231.
RECURSIVE ImportLoop(_, _)
ImportLoop(file, refs) ==
    IF refs = <<>> THEN <<>>
    ELSE LET ref == Head(refs)
             rest == ImportLoop(file, Tail(refs))
         IN  IF ref.level > 0 THEN rest
             ELSE IF Dotted(ref.module) \in StdlibModuleNames THEN rest
             ELSE IF ImportOutcome(ref) = "ImportError"
             THEN <<MissingImport(file, ref)>> \o rest
             ELSE IF ImportOutcome(ref) = "Exception"
             THEN <<ImportError(file, ref)>> \o rest
             ELSE rest

\* _check_missing_imports: a file that cannot be read or does not parse is
\* passed over (lines 215-220).
RECURSIVE check_missing_imports(_)
check_missing_imports(files) ==
    IF files = <<>> THEN <<>>
    ELSE LET file == Head(files)
         IN  (IF file.readable /\ file.parses
              THEN ImportLoop(file, file.refs) ELSE <<>>)
             \o check_missing_imports(Tail(files))

\* Mutant: _check_common_issues running the import scan first.
check_common_issues_ImportsFirst(files) ==
    check_missing_imports(files) \o check_todo_comments(files)
        \o check_large_files(files)

\* _check_common_issues.
check_common_issues(files) ==
    check_todo_comments(files) \o check_large_files(files)
        \o check_missing_imports(files)

\* What the linters are run on and what running them does.  The workspace
\* holds Python files; files of the other two types may be absent.
LinterStdouts == BoundedSeq(LinterLines, MaxLines)

PythonLint ==
    {[files |-> TRUE, proc |-> NotStarted]}
    \cup {[files |-> TRUE, proc |-> Started(rc, stdout, "")] :
              rc \in {0, 1}, stdout \in LinterStdouts}

OtherLint ==
    {[files |-> FALSE, proc |-> NotStarted],
     [files |-> TRUE, proc |-> NotStarted],
     [files |-> TRUE, proc |-> Started(0, <<>>, "")],
     [files |-> TRUE,
      proc |-> Started(1, <<<<"app.js", "3", "1", "E501 line too long">>>>,
                       "")]}

\* What the test run is made on and what pytest does.
TestRuns ==
    [test_files : BOOLEAN,
     proc : {NotStarted, Started(0, <<>>, ""),
             Started(1, <<>>, "1 failed, 2 passed")}]

\* The import references a file can hold.
ImportRefs ==
    { [module |-> <<"json">>, lineno |-> "1", level |-> 0,
       found |-> TRUE, load |-> "ok"],
      [module |-> <<"helpers">>, lineno |-> "2", level |-> 0,
       found |-> TRUE, load |-> "ok"],
      [module |-> <<"requests", "adapters">>, lineno |-> "3", level |-> 0,
       found |-> FALSE, load |-> "ok"],
      [module |-> <<"plugin">>, lineno |-> "4", level |-> 0,
       found |-> TRUE, load |-> "ImportError"],
      [module |-> <<"settings">>, lineno |-> "5", level |-> 0,
       found |-> TRUE, load |-> "Exception"],
      [module |-> <<"sibling">>, lineno |-> "6", level |-> 1,
       found |-> FALSE, load |-> "ok"] }

\* The files rglob("*.py") yields: one of these, then main.py with its
\* import references.
SourceFile(path, readable, parses, lines, size, refs) ==
    [path |-> path, readable |-> readable, parses |-> parses,
     lines |-> lines, size |-> size, refs |-> refs]

FirstFiles ==
    { SourceFile("util.py", TRUE, TRUE, <<"x = 1">>, LargeFileBytes, <<>>),
      SourceFile("locked.py", FALSE, TRUE, <<"# TODO tidy up">>,
                 LargeFileBytes, <<>>),
      SourceFile("broken.py", TRUE, FALSE, <<"def f(:">>, LargeFileBytes,
                 <<[module |-> <<"requests", "adapters">>, lineno |-> "3",
                    level |-> 0, found |-> FALSE, load |-> "ok"]>>),
      SourceFile("app.py", TRUE, TRUE, <<"x = 1", "# TODO tidy up">>,
                 LargeFileBytes, <<>>),
      SourceFile("big.py", TRUE, TRUE, <<"x = 1">>, LargeFileBytes + 1,
                 <<>>) }

Workspaces ==
    { <<first, SourceFile("main.py", TRUE, TRUE, <<"x = 1">>,
                          LargeFileBytes, refs)>> :
          first \in FirstFiles, refs \in BoundedSeq(ImportRefs, MaxRefs) }

\* A detector's input holds a failure: a tool that cannot be started, output
\* that cannot be parsed, a file that cannot be read.
LintFails(lint) ==
    \E t \in {"python", "javascript", "typescript"} :
        /\ lint[t].files
        /\ \/ lint[t].proc.launch = "fails"
           \/ /\ lint[t].proc.launch = "ok"
              /\ lint[t].proc.returncode # 0
              /\ parse_linter_output(lint[t].proc.stdout, t).raised

TestsFail(tests) == tests.test_files /\ tests.proc.launch = "fails"

FilesFail(files) == \E k \in 1..Len(files) : ~files[k].readable

\* _check_for_bugs, line 65: _run_linters returns.  Were it to raise, line 88
\* would end the pass.
DetRunLinters ==
    /\ bf_pc = "collecting"
    /\ det.phase = "linters"
    /\ \E py \in PythonLint, js \in OtherLint, ts \in OtherLint :
          LET lint == [python |-> py, javascript |-> js, typescript |-> ts]
              out == run_linters(lint)
          IN  det' = [phase |-> IF out.raised THEN "aborted" ELSE "tests",
                      lint |-> lint, out |-> out,
                      insights |-> out.insights,
                      failed |-> LintFails(lint)]
    /\ bf_pc' = IF det'.phase = "aborted" THEN "interval" ELSE bf_pc
    /\ last_call' = [op |-> "_run_linters", arg |-> None]
    /\ UNCHANGED <<ctrlVars, resume_waiter, ret, histVars, bf_pending,
                   bf_is_running, bf_passes, bf_found, bf_cancel, coding_pc,
                   coding_error, orch_pc, orch_is_running, orch_raised,
                   coding_statement, coding_cancel, sd_pc>>

\* Line 68: _run_tests returns.
DetRunTests ==
    /\ bf_pc = "collecting"
    /\ det.phase = "tests"
    /\ \E tests \in TestRuns :
          LET out == run_tests(tests)
          IN  det' = [phase |-> IF out.raised THEN "aborted" ELSE "common",
                      tests |-> tests, out |-> out,
                      insights |-> det.insights \o out.insights,
                      failed |-> det.failed \/ TestsFail(tests)]
    /\ bf_pc' = IF det'.phase = "aborted" THEN "interval" ELSE bf_pc
    /\ last_call' = [op |-> "_run_tests", arg |-> None]
    /\ UNCHANGED <<ctrlVars, resume_waiter, ret, histVars, bf_pending,
                   bf_is_running, bf_passes, bf_found, bf_cancel, coding_pc,
                   coding_error, orch_pc, orch_is_running, orch_raised,
                   coding_statement, coding_cancel, sd_pc>>

\* Lines 71-74: _check_common_issues returns and all_insights is made of the
\* three lists; the loop of line 77 is next.
DetCheckCommonIssues ==
    /\ bf_pc = "collecting"
    /\ det.phase = "common"
    /\ \E files \in Workspaces :
          LET out == check_common_issues(files)
          IN  det' = [phase |-> "done",
                      files |-> files,
                      out |-> [raised |-> FALSE, insights |-> out],
                      insights |-> det.insights \o out,
                      failed |-> det.failed \/ FilesFail(files)]
    /\ bf_pending' = det'.insights
    /\ bf_pc' = "policy"
    /\ last_call' = [op |-> "_check_common_issues", arg |-> None]
    /\ UNCHANGED <<ctrlVars, resume_waiter, ret, histVars, bf_is_running,
                   bf_passes, bf_found, bf_cancel, coding_pc, coding_error,
                   orch_pc, orch_is_running, orch_raised, coding_statement,
                   coding_cancel, sd_pc>>

\* The state in which a pass of run_loop starts (line 53): nothing has been
\* paused, injected or drained yet.
PassStarted ==
    /\ pause_event = FALSE
    /\ resume_event = TRUE
    /\ shutdown_event = FALSE
    /\ insights_queue = <<>>
    /\ agent_context = <<>>
    /\ is_paused = FALSE
    /\ pause_reason = None
    /\ agent_turn_count = 0
    /\ resume_waiter = "none"
    /\ last_call = [op |-> "run_loop", arg |-> None]
    /\ ret = List(<<>>)
    /\ injected = <<>>
    /\ all_injected = <<>>
    /\ drained = <<>>
    /\ bf_pc = "collecting"
    /\ bf_pending = <<>>
    /\ bf_is_running = TRUE
    /\ bf_passes = 1
    /\ bf_found = 0
    /\ bf_cancel = FALSE
    /\ coding_pc = "working"
    /\ coding_error = None
    /\ orch_pc = "await_coding"
    /\ orch_is_running = TRUE
    /\ orch_raised = None
    /\ coding_statement = <<ProblemStatement>>
    /\ coding_cancel = FALSE
    /\ sd_pc = "idle"

\* One pass of the bug finder, from the state run() and the first steps of
\* the two tasks lead to: the coding agent works on the problem statement
\* and _check_for_bugs is about to run its first detector.
DetectInit ==
    /\ PassStarted
    /\ det = [phase |-> "linters",
              out |-> [raised |-> FALSE, insights |-> <<>>],
              insights |-> <<>>, failed |-> FALSE]

DetectNext ==
    \/ DetRunLinters
    \/ DetRunTests
    \/ DetCheckCommonIssues
    \/ PolicyPause
    \/ PolicyInjectHigh
    \/ PolicyResume
    \/ PolicyInjectMedium
    \/ PolicySkip
    \/ PolicyEnd

DetectSpec == DetectInit /\ [][DetectNext]_vars

\* The workspaces of the TODO/FIXME scan: one or two source files, each
\* readable or not, of up to MaxFileLines lines.
TodoFiles(path) ==
    { SourceFile(path, readable, TRUE, lines, LargeFileBytes, <<>>) :
        readable \in BOOLEAN, lines \in BoundedSeq(LineTexts, MaxFileLines) }

TodoWorkspaces ==
    { <<a>> : a \in TodoFiles("a.py") }
    \cup { <<a, b>> : a \in TodoFiles("a.py"), b \in TodoFiles("b.py") }

TodoInit ==
    /\ PassStarted
    /\ \E files \in TodoWorkspaces :
           det = [phase |-> "todo", files |-> files, out |-> <<>>]

\* Line 141: the call of _check_todo_comments and its return.
DetCheckTodoComments ==
    /\ det.phase = "todo"
    /\ det' = [det EXCEPT !.phase = "todo_done",
                          !.out = check_todo_comments(det.files)]
    /\ last_call' = [op |-> "_check_todo_comments", arg |-> None]
    /\ UNCHANGED <<ctrlVars, resume_waiter, ret, histVars, bf_pc, bf_pending,
                   bf_is_running, bf_passes, bf_found, bf_cancel, coding_pc,
                   coding_error, orch_pc, orch_is_running, orch_raised,
                   coding_statement, coding_cancel, sd_pc>>

TodoNext == DetCheckTodoComments

TodoSpec == TodoInit /\ [][TodoNext]_vars

----------------------------------------------------------------------------
\* The step just taken is a call of the named method (every call records
\* itself in last_call, so a step that changes the state and ends with
\* last_call.op = op is a step of that call).
Called(op) == last_call'.op = op

\* checkpoint() has returned in the state reached: the most recent call is a
\* checkpoint that is not parked on the future.
CheckpointReturned ==
    /\ last_call.op \in {"checkpoint", "checkpoint_resume"}
    /\ resume_waiter = "none"

----------------------------------------------------------------------------
\* C1: a Consumer suspended inside checkpoint() leaves the suspension only in
\* a step that is a request_resume made while paused or a shutdown (only if);
\* right after any such call no Consumer is still suspended (if); and once
\* released, the checkpoint() call does return (no permanent deadlock).
C1_SuspendedReturnsIffResumedOrShutdown ==
    /\ [][(resume_waiter = "pending" /\ resume_waiter' # "pending")
            => \/ Called("request_resume") /\ is_paused
               \/ Called("shutdown")]_vars
    /\ [](last_call.op \in {"request_resume", "shutdown"}
            => resume_waiter # "pending")
    /\ (resume_waiter = "done") ~> (resume_waiter = "none")

\* A checkpoint() that was suspended has been released by request_resume and
\* has returned true.
C1_Witness ==
    /\ last_call.op = "checkpoint_resume"
    /\ ret = Bool(TRUE)
    /\ ~is_paused
    /\ ~shutdown_event

\* C2: shutdown() called while a Consumer is suspended inside checkpoint()
\* completes the future it waits on, paused or not; that checkpoint() call
\* then returns, and the value it returns is false.
C2_ShutdownUnblocksSuspended ==
    /\ [][(resume_waiter = "pending" /\ Called("shutdown"))
            => resume_waiter' = "done"]_vars
    /\ [][(resume_waiter = "done" /\ shutdown_event /\ resume_waiter' = "none")
            => ret' = Bool(FALSE)]_vars
    /\ (resume_waiter = "done" /\ shutdown_event)
          ~> (last_call.op = "checkpoint_resume" /\ ret = Bool(FALSE))

\* The checkpoint() released by shutdown has returned false while the
\* controller is still paused.
C2_Witness ==
    /\ last_call.op = "checkpoint_resume"
    /\ ret = Bool(FALSE)
    /\ is_paused
    /\ pause_event

\* C3: once shutdown() has been called no checkpoint() call is suspended, and
\* every checkpoint() call that returns, returns false, whatever calls follow
\* the shutdown.
C3_NoSuspensionAfterShutdown ==
    shutdown_event =>
        /\ resume_waiter # "pending"
        /\ CheckpointReturned => ret = Bool(FALSE)

\* C4: shutdown_event is down initially and no step lowers it once it is up.
C4_ShutdownOneWay ==
    /\ ~shutdown_event
    /\ [][shutdown_event => shutdown_event']_vars

\* shutdown_event is still up after calls made later than the shutdown: a
\* request_pause, a checkpoint() that parked on it (the shutdown released any
\* earlier one) and an inject_insight.
C4_Witness ==
    /\ shutdown_event
    /\ resume_waiter = "pending"
    /\ last_call.op = "inject_insight"

\* C5: a checkpoint() call made while pause_event is up and resume_event is
\* down does not return in that step: it parks on the future; the future is
\* completed only by a step that raises resume_event; and a parked call
\* returns only from a completed future.  A checkpoint() call made while
\* pause_event is up that returns at once finds resume_event up and
\* shutdown_event up.
C5_PausedCheckpointWaitsForSignal ==
    /\ [][(Called("checkpoint") /\ pause_event /\ ~resume_event)
            => (resume_waiter' = "pending" /\ ret' = Suspended)]_vars
    /\ [][(Called("checkpoint") /\ pause_event /\ resume_waiter' = "none")
            => (resume_event /\ shutdown_event)]_vars
    /\ [][(resume_waiter = "pending" /\ resume_waiter' # "pending")
            => (~resume_event /\ resume_event' /\ resume_waiter' = "done")]_vars
    /\ [][(resume_waiter # "none" /\ resume_waiter' = "none")
            => resume_waiter = "done"]_vars

\* A checkpoint() call is parked: pause_event is up, resume_event is down and
\* there has been no shutdown.
C5_Witness ==
    /\ last_call.op = "checkpoint"
    /\ resume_waiter = "pending"
    /\ ret = Suspended
    /\ pause_event
    /\ ~resume_event
    /\ ~shutdown_event

C7_RequestPauseWhenNotPaused ==
    [][(Called("request_pause") /\ ~is_paused)
         => /\ is_paused'
            /\ pause_reason' = last_call'.arg
            /\ pause_event'
            /\ ~resume_event']_vars

\* request_pause has just paused the controller with the bug-finder's reason.
C7_Witness ==
    /\ last_call.op = "request_pause"
    /\ is_paused
    /\ pause_reason = "Critical bug detected: missing_import"
    /\ last_call.arg = pause_reason
    /\ pause_event
    /\ ~resume_event

\* C8: request_pause called while already paused changes nothing: the reason
\* of the first call, is_paused, the three events, the queue, the context and
\* the turn count stay as they are, and no parked checkpoint() is released.
C8_RequestPauseWhenPausedIsNoOp ==
    [][(Called("request_pause") /\ is_paused)
         => UNCHANGED <<pause_reason, is_paused, pause_event, resume_event,
                        shutdown_event, insights_queue, agent_context,
                        agent_turn_count, resume_waiter>>]_vars

\* A second request_pause, with another reason, has been made while paused.
C8_Witness ==
    /\ last_call.op = "request_pause"
    /\ is_paused
    /\ last_call.arg # pause_reason

\* C9: request_resume called while paused clears is_paused and pause_reason,
\* lowers pause_event and raises resume_event; called while not paused it
\* changes no state of the controller and releases nobody.
C9_RequestResume ==
    [][Called("request_resume")
         => IF is_paused
            THEN /\ ~is_paused'
                 /\ pause_reason' = None
                 /\ ~pause_event'
                 /\ resume_event'
            ELSE UNCHANGED <<ctrlVars, resume_waiter>>]_vars

\* request_resume has just been called, the controller is running, and the
\* Consumer that was parked has been released.
C9_Witness ==
    /\ last_call.op = "request_resume"
    /\ ~is_paused
    /\ pause_reason = None
    /\ ~pause_event
    /\ resume_event
    /\ resume_waiter = "done"

\* C10: get_insights returns exactly the insights injected since the last
\* get_insights, each once and in injection order, and leaves the queue
\* empty; a get_insights right after a get_insights returns the empty list.
C10_DrainReturnsInjectedInOrder ==
    /\ [][Called("get_insights")
            => (ret' = List(injected) /\ insights_queue' = <<>>)]_vars
    /\ [][(last_call.op = "get_insights" /\ Called("get_insights"))
            => ret' = List(<<>>)]_vars

\* get_insights has just returned two different insights.
C10_Witness ==
    /\ last_call.op = "get_insights"
    /\ Len(ret.list) = 2
    /\ ret.list[1] # ret.list[2]
    /\ insights_queue = <<>>

\* C11: inject_insight(insight) appends the insight to the end of the queue
\* and its entry to the end of the context, returns normally, and changes
\* nothing else: is_paused, pause_reason, the three events and the turn count
\* stay as they are and no parked checkpoint() is released.
C11_InjectAppendsAndChangesNothingElse ==
    [][Called("inject_insight")
         => /\ insights_queue' = Append(insights_queue, last_call'.arg)
            /\ agent_context' = Append(agent_context, ContextEntry(last_call'.arg))
            /\ ret' = NoneValue
            /\ UNCHANGED <<is_paused, pause_reason, pause_event, resume_event,
                           shutdown_event, agent_turn_count, resume_waiter>>]_vars

\* An insight has just been injected behind another one while the controller
\* is paused, a checkpoint() is parked and there has been no shutdown.
C11_Witness ==
    /\ last_call.op = "inject_insight"
    /\ Len(insights_queue) = 2
    /\ insights_queue[2] = last_call.arg
    /\ insights_queue[1] # last_call.arg
    /\ agent_context[2] = ContextEntry(last_call.arg)
    /\ is_paused
    /\ resume_waiter = "pending"
    /\ ~shutdown_event

\* C12: agent_turn_count grows by exactly one in every checkpoint() call,
\* parked or not, before or after the shutdown, and no other step changes it
\* (so it never decreases).
C12_TurnCountCountsCheckpoints ==
    [][agent_turn_count' =
         agent_turn_count + (IF Called("checkpoint") THEN 1 ELSE 0)]_vars

\* Two checkpoint() calls have been counted; the second was made after the
\* shutdown and is parked.
C12_Witness ==
    /\ agent_turn_count = 2
    /\ shutdown_event
    /\ resume_waiter = "pending"
    /\ last_call.op = "checkpoint"

\* The insight lines of a summary, in order.
RECURSIVE InsightLinesOf(_)
InsightLinesOf(summary) ==
    IF summary = <<>> THEN <<>>
    ELSE (IF Head(summary)[1] = "- " THEN <<Head(summary)>> ELSE <<>>)
         \o InsightLinesOf(Tail(summary))

\* C13: get_context_summary covers exactly the last min(5, n) of the n
\* context entries, in the order of the context (the most recent last), and
\* reads only: the queue, the context, the pause state, the events and the
\* turn count stay as they are.
C13_SummaryCoversLastFiveReadOnly ==
    [][Called("get_context_summary")
         => LET n == Len(agent_context)
                m == IF n < 5 THEN n ELSE 5
                covered == InsightLinesOf(ret'.str)
            IN  /\ Len(covered) = m
                /\ \A k \in 1..m :
                      covered[k] = InsightLine(agent_context[n - m + k].insight)
                /\ UNCHANGED <<ctrlVars, resume_waiter>>]_vars

\* A summary of a context of six entries has been returned: it covers five
\* of them and not the oldest, and the queue still holds all six insights.
C13_Witness ==
    /\ last_call.op = "get_context_summary"
    /\ Len(agent_context) = 6
    /\ Len(InsightLinesOf(ret.str)) = 5
    /\ \A k \in 1..5 :
          InsightLinesOf(ret.str)[k] # InsightLine(agent_context[1].insight)
    /\ Len(insights_queue) = 6

----------------------------------------------------------------------------
\* C14: for every insight of severity high or critical of a pass the
\* bug-finder calls request_pause (with the reason naming the bug type), then
\* inject_insight with that insight, then sleeps, then calls request_resume:
\* the policy takes the pausing branch for both severities; from the loop head
\* of such an insight the only step is the request_pause; the only step after
\* it is the inject_insight of that insight; the sleep ends with
\* request_resume (or with the task's cancellation); and such an insight is
\* left behind only by that request_resume.
PausingSeverities == {"high", "critical"}

C14_PauseInjectWaitResume ==
    /\ \A insight \in BugInsights :
          insight.severity \in PausingSeverities
              => PolicyBranch(insight) = "pause"
    /\ [][ /\ ( /\ bf_pc = "policy"
                /\ bf_pending # <<>>
                /\ Head(bf_pending).severity \in PausingSeverities )
              => /\ Called("request_pause")
                 /\ last_call'.arg = PolicyReason(Head(bf_pending))
                 /\ insights_queue' = insights_queue
                 /\ pause_event'
                 /\ bf_pc' = "inject_high"
                 /\ bf_pending' = bf_pending
           /\ bf_pc = "inject_high"
              => /\ Head(bf_pending).severity \in PausingSeverities
                 /\ last_call.op = "request_pause"
                 /\ Called("inject_insight")
                 /\ insights_queue' =
                        Append(insights_queue, Head(bf_pending))
                 /\ bf_pc' = "pause_sleep"
                 /\ bf_pending' = bf_pending
           /\ (bf_pc = "pause_sleep" /\ bf_pc' # "pause_sleep")
              => \/ /\ Called("request_resume")
                    /\ bf_pc' = "policy"
                    /\ bf_pending' = Tail(bf_pending)
                 \/ bf_pc' = "cancelled"
           /\ ( /\ bf_pending # <<>>
                /\ Head(bf_pending).severity \in PausingSeverities
                /\ bf_pending' # bf_pending )
              => /\ bf_pc = "pause_sleep"
                 /\ Called("request_resume")
                 /\ Len(agent_context) > 0
                 /\ agent_context[Len(agent_context)] =
                        ContextEntry(Head(bf_pending))
         ]_vars

\* A cycle has been completed during whose sleep the coding agent's
\* checkpoint() was suspended.
C14_Witness ==
    /\ last_call.op = "request_resume"
    /\ bf_pc = "policy"
    /\ resume_waiter = "done"
    /\ Len(agent_context) > 0
    /\ agent_context[Len(agent_context)].insight.severity = "high"

----------------------------------------------------------------------------
\* C15: for an insight of severity medium the bug-finder calls inject_insight
\* only: the insight is appended to insights_queue and its entry to
\* agent_context, and is_paused, pause_reason, pause_event and resume_event
\* are unchanged; the bug-finder goes on to the next insight without waiting.
C15_MediumInjectsOnly ==
    [][ ( /\ bf_pc = "policy"
          /\ bf_pending # <<>>
          /\ Head(bf_pending).severity = "medium" )
        => /\ Called("inject_insight")
           /\ last_call'.arg = Head(bf_pending)
           /\ insights_queue' = Append(insights_queue, Head(bf_pending))
           /\ agent_context' =
                  Append(agent_context, ContextEntry(Head(bf_pending)))
           /\ UNCHANGED <<is_paused, pause_reason, pause_event, resume_event,
                          shutdown_event, agent_turn_count, resume_waiter>>
           /\ bf_pending' = Tail(bf_pending)
           /\ bf_pc' = "policy"
      ]_vars

\* A medium insight has just been injected by the policy.
C15_Witness ==
    /\ bf_pc = "policy"
    /\ last_call.op = "inject_insight"
    /\ last_call.arg.severity = "medium"
    /\ Len(insights_queue) > 0
    /\ insights_queue[Len(insights_queue)] = last_call.arg
    /\ ~is_paused

----------------------------------------------------------------------------
\* C16: an insight of severity low causes no controller call: the step that
\* handles it changes no controller field; so insights_queue and
\* agent_context hold only insights of severity medium, high or critical,
\* however many passes have run.
InjectedSeverities == {"medium", "high", "critical"}

C16_LowIsDiscarded ==
    /\ [][ ( /\ bf_pc = "policy"
             /\ bf_pending # <<>>
             /\ Head(bf_pending).severity = "low" )
           => /\ UNCHANGED <<ctrlVars, resume_waiter, injected>>
              /\ ~Called("inject_insight")
              /\ ~Called("request_pause")
              /\ ~Called("request_resume")
              /\ bf_pending' = Tail(bf_pending)
              /\ bf_pc' = "policy"
         ]_vars
    /\ [](\A i \in 1..Len(insights_queue) :
              insights_queue[i].severity \in InjectedSeverities)
    /\ [](\A i \in 1..Len(agent_context) :
              agent_context[i].insight.severity \in InjectedSeverities)

\* A second pass has handled a low insight, and the first has left an insight
\* in the queue.
C16_Witness ==
    /\ bf_passes = 2
    /\ last_call.op = "policy_skip"
    /\ last_call.arg.severity = "low"
    /\ Len(insights_queue) > 0

----------------------------------------------------------------------------
\* C17: when insights of severity low, high and medium have been injected in
\* that order and none has been taken out, get_insights returns the three in
\* that order; of the three, the dispatch of the bug-finder's policy takes the
\* pausing branch for the high one only.
SeveritiesOf(insights) == [i \in 1..Len(insights) |-> insights[i].severity]

----------------------------------------------------------------------------
\* C18: run_loop starts a pass only at the head of its loop and only with
\* shutdown_event down; a pass that ends is followed by the sleep of one
\* check interval, and the sleep by the head of the loop; at the head with
\* shutdown_event up the loop ends and starts no pass again; and, every
\* detector returning, once shutdown_event is up the task ends.
AtLoopHead == bf_pc \in {"created", "interval"}

C18_RunLoopStopsOnShutdown ==
    /\ [][ /\ bf_passes' # bf_passes
              => /\ AtLoopHead
                 /\ ~shutdown_event
                 /\ bf_passes' = bf_passes + 1
                 /\ bf_pc' = "collecting"
           /\ (bf_pc = "policy" /\ bf_pending = <<>>)
              => bf_pc' = "interval"
           /\ (bf_pc = "interval" /\ bf_pc' # "interval")
              => \/ ~shutdown_event /\ bf_pc' = "collecting"
                 \/ shutdown_event /\ bf_pc' = "stopped"
                 \/ bf_cancel /\ bf_pc' = "cancelled"
           /\ (AtLoopHead /\ shutdown_event /\ bf_pc' # bf_pc)
              => /\ BfDone'
                 /\ ~bf_is_running'
           /\ BfDone => UNCHANGED <<bf_pc, bf_passes, bf_is_running>>
         ]_vars
    /\ (shutdown_event /\ bf_pc # "no_task") ~> (BfDone /\ ~bf_is_running)

\* The loop has ended at its head, with shutdown_event up, after two passes.
C18_Witness ==
    /\ bf_pc = "stopped"
    /\ bf_passes = 2
    /\ shutdown_event
    /\ ~bf_cancel
    /\ last_call.op = "run_loop_exit"

----------------------------------------------------------------------------
\* C19: on the success path of run() the coding task ends, then
\* controller.shutdown() is called, then the bug-finder task is awaited:
\* run() calls shutdown() only from its await of the coding task and only
\* when that task is done; while run() awaits the bug-finder task the coding
\* task has returned and shutdown_event is up; and run() returns only from
\* that await and only when the bug-finder task has ended.
CodingDone == coding_pc \in {"finished", "failed"}

C19_SuccessPathOrder ==
    /\ [][ /\ Called("shutdown")
              => /\ orch_pc = "await_coding"
                 /\ CodingDone
                 /\ (coding_pc = "finished" => orch_pc' = "await_bf")
           /\ (orch_pc' = "returned" /\ orch_pc # "returned")
              => /\ orch_pc = "await_bf"
                 /\ bf_pc = "stopped"
         ]_vars
    /\ [](shutdown_event => CodingDone)
    /\ [](orch_pc = "await_bf" => (coding_pc = "finished" /\ shutdown_event))
    /\ [](orch_pc = "returned"
            => /\ coding_pc = "finished"
               /\ shutdown_event
               /\ bf_pc = "stopped"
               /\ ~bf_is_running
               /\ ~orch_is_running)

\* run() has returned after a run in which the bug-finder ran a pass.
C19_Witness ==
    /\ orch_pc = "returned"
    /\ coding_pc = "finished"
    /\ bf_pc = "stopped"
    /\ bf_passes > 0
    /\ shutdown_event

----------------------------------------------------------------------------
----------------------------------------------------------------------------
\* C21: whenever run() has finished, by returning or by raising the coding
\* task's exception, shutdown_event and resume_event are up, no checkpoint()
\* call is suspended, both tasks are done, and the is_running flags of the
\* orchestrator and of the bug-finder are down.
RunFinished == orch_pc \in {"returned", "raised"}

C21_FinishedRunIsShutDown ==
    RunFinished
        => /\ shutdown_event
           /\ resume_event
           /\ resume_waiter = "none"
           /\ CodingDone
           /\ BfDone
           /\ ~bf_is_running
           /\ ~orch_is_running

\* run() has returned after a run with checkpoint() calls, injected insights
\* and two passes of the bug-finder.
C21_Witness ==
    /\ orch_pc = "returned"
    /\ agent_turn_count > 0
    /\ is_paused = FALSE
    /\ Len(agent_context) > 0
    /\ bf_passes = 2

----------------------------------------------------------------------------
\* C22: AgentOrchestrator.shutdown() calls controller.shutdown() first; it
\* then cancels the coding task if that task is not done and awaits it, then
\* cancels the bug-finder task if that task is not done and awaits it; it
\* returns normally, and when it returns neither task is active and
\* is_running is down.
C22_OrchestratorShutdown ==
    /\ [][ /\ (sd_pc = "idle" /\ sd_pc' # "idle")
              => /\ shutdown_event' /\ resume_event'
                 /\ ~coding_cancel /\ (coding_cancel' <=> CodingActive)
                 /\ CodingActive => (sd_pc' = "await_coding"
                                        /\ UNCHANGED bf_cancel)
                 /\ (~CodingActive /\ BfActive)
                        => (sd_pc' = "await_bf" /\ bf_cancel')
           /\ (sd_pc = "await_coding" /\ sd_pc' # "await_coding")
              => /\ ~CodingActive
                 /\ BfActive => (sd_pc' = "await_bf" /\ bf_cancel')
           /\ (sd_pc # "returned" /\ sd_pc' = "returned")
              => /\ ~CodingActive' /\ ~BfActive'
                 /\ ~orch_is_running' /\ ~bf_is_running'
           /\ (coding_pc # "cancelled" /\ coding_pc' = "cancelled")
              => sd_pc = "await_coding"
         ]_vars
    /\ [](sd_pc = "returned"
            => (shutdown_event /\ ~CodingActive /\ ~BfActive))
    /\ (sd_pc # "idle") ~> (sd_pc = "returned")

\* shutdown() has returned after cancelling both tasks while the agent was
\* paused, and run() has ended with the CancelledError.
C22_Witness ==
    /\ sd_pc = "returned"
    /\ coding_pc = "cancelled"
    /\ bf_pc = "cancelled"
    /\ is_paused
    /\ agent_turn_count > 0
    /\ orch_pc = "cancelled"

----------------------------------------------------------------------------
\* C25: the first step of the coding task takes every pending insight out of
\* the queue and hands run_agent a statement that starts with the problem
\* statement and holds the description and the severity of every one of
\* them, in queue order; with no insight pending the statement is the problem
\* statement alone.
Descriptions == { insight.description : insight \in BugInsights }

IsDescription(piece) == piece \in Descriptions

DescriptionsOf(insights) ==
    [i \in 1..Len(insights) |-> insights[i].description]

C25_PendingInsightsFoldedInOrder ==
    [][ (coding_pc = "created" /\ coding_pc' # "created")
        => /\ Called("get_insights")
           /\ ret' = List(insights_queue)
           /\ insights_queue' = <<>>
           /\ Head(coding_statement') = ProblemStatement
           /\ SelectSeq(coding_statement', IsDescription)
                  = DescriptionsOf(insights_queue)
           /\ (insights_queue = <<>>
                  => coding_statement' = <<ProblemStatement>>)
           /\ (insights_queue # <<>>
                  => Len(coding_statement') > 1)
      ]_vars

\* The agent has been started with a statement that holds three insights.
C25_Witness ==
    /\ coding_pc = "working"
    /\ last_call.op = "get_insights"
    /\ Len(ret.list) = 3
    /\ ret.list[1] # ret.list[2]
    /\ SelectSeq(coding_statement, IsDescription) = DescriptionsOf(ret.list)

----------------------------------------------------------------------------
\* C26: get_status() returns whether each task is active, is_paused,
\* pause_reason, agent_turn_count and the number of insights in the queue, as
\* they are at the call, and changes nothing: in particular the queue keeps
\* its insights and agent_turn_count its value.
C26_StatusIsReadOnlySnapshot ==
    [][ Called("get_status")
        => /\ ret'.dict.is_running = orch_is_running
           /\ ret'.dict.coding_agent_running
                  = (coding_pc \in {"created", "working", "stopping"})
           /\ ret'.dict.bug_finder_running
                  = (bf_pc \notin {"no_task", "stopped", "cancelled"})
           /\ ret'.dict.is_paused = is_paused
           /\ ret'.dict.pause_reason = pause_reason
           /\ ret'.dict.turn_count = agent_turn_count
           /\ ret'.dict.insights_count = Len(insights_queue)
           /\ UNCHANGED <<ctrlVars, resume_waiter, injected, sysVars>>
      ]_vars

\* get_status() has been called while the agent was paused, with an insight
\* in the queue, after a checkpoint() call, with both tasks active.
C26_Witness ==
    /\ last_call.op = "get_status"
    /\ ret.dict.is_paused
    /\ ret.dict.insights_count > 0
    /\ ret.dict.turn_count > 0
    /\ ret.dict.coding_agent_running
    /\ ret.dict.bug_finder_running
    /\ Len(insights_queue) = ret.dict.insights_count


----------------------------------------------------------------------------
\* An insight the loop of lines 77-84 hands to the controller.
Reported(insight) == PolicyBranch(insight) # "none"

\* C23: a failure inside one detector (a tool that cannot be launched, output
\* that cannot be parsed, a file that cannot be read) never ends the pass
\* early: the pass is never aborted, and when it is over every detector has
\* run and the policy has handed to the controller every high or medium
\* insight the detectors returned, in order.
C23_DetectorFailureDoesNotAbortPass ==
    /\ det.phase # "aborted"
    /\ bf_pc = "interval" =>
          /\ det.phase = "done"
          /\ injected = SelectSeq(det.insights, Reported)

\* A pass is over in which a detector met a failure and an insight of
\* another detector went to the controller.
C23_Witness ==
    /\ bf_pc = "interval"
    /\ det.phase = "done"
    /\ det.failed
    /\ injected # <<>>

\* C24: a test runner that cannot be launched yields no insight from
\* _run_tests (and so no test_failure and no pause).
C24_UnlaunchableRunnerYieldsNothing ==
    (/\ last_call.op = "_run_tests"
     /\ det.tests.test_files
     /\ det.tests.proc.launch = "fails")
        => det.out.insights = <<>>

\* C27: _run_tests runs pytest only when a test file is present and at most
\* once; a run that exits non-zero yields exactly one test_failure insight of
\* severity high; a run that exits zero, or no test file, yields no insight.
C27_TestDetector ==
    last_call.op = "_run_tests" =>
        LET tests == det.tests
            out == det.out
        IN  /\ out.runs <= 1
            /\ out.runs = 1 => tests.test_files
            /\ (/\ tests.test_files
                /\ tests.proc.launch = "ok"
                /\ tests.proc.returncode # 0)
                   => /\ out.runs = 1
                      /\ Len(out.insights) = 1
                      /\ out.insights[1].bug_type = "test_failure"
                      /\ out.insights[1].severity = "high"
            /\ (\/ ~tests.test_files
                \/ /\ tests.proc.launch = "ok"
                   /\ tests.proc.returncode = 0)
                   => out.insights = <<>>

\* pytest ran once, exited non-zero, and one test_failure insight came back.
C27_Witness ==
    /\ last_call.op = "_run_tests"
    /\ det.tests.test_files
    /\ det.tests.proc.launch = "ok"
    /\ det.tests.proc.returncode = 1
    /\ det.out.runs = 1
    /\ Len(det.out.insights) = 1

\* A diagnostic line "path:line:col: message" with numeric line and column.
Parseable(parts) == Len(parts) >= 4 /\ IsInt(parts[2]) /\ IsInt(parts[3])

\* The severity the keyword rule gives to a message.
KeywordSeverity(message) ==
    IF ContainsError(message) THEN "high"
    ELSE IF ContainsWarning(message) THEN "medium"
    ELSE "low"

\* The parseable lines a linter of the given type printed, when files of the
\* type exist and the linter ran and exited non-zero.
DiagnosticLines(lint, file_type) ==
    IF /\ lint[file_type].files
       /\ lint[file_type].proc.launch = "ok"
       /\ lint[file_type].proc.returncode # 0
    THEN SelectSeq(lint[file_type].proc.stdout, Parseable)
    ELSE <<>>

AllDiagnosticLines(lint) ==
    DiagnosticLines(lint, "python") \o DiagnosticLines(lint, "javascript")
        \o DiagnosticLines(lint, "typescript")

\* No linter printed a four-part line whose line or column is no number.
NoNonNumericLine(lint) ==
    \A t \in {"python", "javascript", "typescript"} :
        lint[t].proc.launch = "ok" =>
            \A k \in 1..Len(lint[t].proc.stdout) :
                LET parts == lint[t].proc.stdout[k]
                IN  Len(parts) >= 4 => Parseable(parts)

\* C28: for each file type present whose linter exits non-zero, _run_linters
\* returns one insight per parseable diagnostic line, of severity high when
\* the message contains "error", else medium when it contains "warning",
\* else low.
C28_OneInsightPerDiagnosticLine ==
    (last_call.op = "_run_linters" /\ NoNonNumericLine(det.lint)) =>
        LET lines == AllDiagnosticLines(det.lint)
            out == det.out.insights
        IN  /\ Len(out) = Len(lines)
            /\ \A k \in 1..Len(lines) :
                  /\ out[k].description = lines[k][4]
                  /\ out[k].severity = KeywordSeverity(lines[k][4])

\* C29: when the Python linter's output holds malformed lines among
\* well-formed ones, every well-formed line still yields its insight.
C29_MalformedLinesAreSkipped ==
    last_call.op = "_run_linters" =>
        LET lines == DiagnosticLines(det.lint, "python")
            out == det.out.insights
        IN  \A k \in 1..Len(lines) :
                \E j \in 1..Len(out) :
                    /\ out[j].bug_type = "linting_error"
                    /\ out[j].file_path = lines[k][1]
                    /\ out[j].line_number = lines[k][2]
                    /\ out[j].description = lines[k][4]

\* The insights of the import scan about the reference at a line of a file.
ImportInsightsAt(out, file, ref) ==
    SelectSeq(out, LAMBDA insight :
                       /\ insight.bug_type \in {"missing_import",
                                                "import_error"}
                       /\ insight.file_path = file.path
                       /\ insight.line_number = ref.lineno)

\* C30: in the import scan a reference outside the standard library that
\* cannot be resolved yields a missing_import insight of severity high whose
\* suggested fix names the top-level package; one that resolves but raises
\* while loading yields an import_error insight of severity medium instead;
\* a standard-library reference and a file that does not parse yield none.
C30_ImportScan ==
    last_call.op = "_check_common_issues" =>
        \A f \in 1..Len(det.files) :
            LET file == det.files[f]
            IN  \A k \in 1..Len(file.refs) :
                    LET ref == file.refs[k]
                        found == ImportInsightsAt(det.out.insights, file, ref)
                    IN  IF ~file.parses
                             \/ Dotted(ref.module) \in StdlibModuleNames
                        THEN found = <<>>
                        ELSE /\ (file.readable /\ ref.level = 0 /\ ~ref.found)
                                   => \E j \in 1..Len(found) :
                                         /\ found[j].bug_type = "missing_import"
                                         /\ found[j].severity = "high"
                                         /\ found[j].suggested_fix =
                                              "Install missing package: pip install "
                                                  \o Head(ref.module)
                             /\ (/\ file.readable
                                 /\ ref.level = 0
                                 /\ ref.found
                                 /\ ref.load # "ok")
                                   => /\ found # <<>>
                                      /\ \A j \in 1..Len(found) :
                                            /\ found[j].bug_type = "import_error"
                                            /\ found[j].severity = "medium"

\* The lines that contain TODO or FIXME in some letter case.
MentionsTodoOrFixme(line) ==
    line \in {"# TODO tidy up", "# todo: later", "raise FixMe",
              "# TODO or FIXME"}

\* The positions of the scan's result that report line i of the file.
TodoFindingsAt(file, i) ==
    { k \in DOMAIN det.out :
        /\ det.out[k].file_path = file.path
        /\ det.out[k].line_number = LineNumber(i) }

\* C31: the TODO/FIXME scan yields exactly one todo_comment finding of
\* severity low for every line of every source file it can read that contains
\* TODO or FIXME in any letter case, located at that file and 1-based line
\* number, and no finding for any other line.
C31_TodoScan ==
    det.phase = "todo_done" =>
        /\ \A k \in DOMAIN det.out :
               /\ det.out[k].bug_type = "todo_comment"
               /\ det.out[k].severity = "low"
        /\ \A f \in DOMAIN det.files :
               \A i \in DOMAIN det.files[f].lines :
                   Cardinality(TodoFindingsAt(det.files[f], i)) =
                       IF /\ det.files[f].readable
                          /\ MentionsTodoOrFixme(det.files[f].lines[i])
                       THEN 1 ELSE 0
        /\ \A k \in DOMAIN det.out :
               \E f \in DOMAIN det.files :
                   \E i \in DOMAIN det.files[f].lines :
                       k \in TodoFindingsAt(det.files[f], i)

\* The scan has reported a lower-case todo on line 2 of the second file and
\* nothing for the line before it.
C31_Witness ==
    /\ det.phase = "todo_done"
    /\ Len(det.files) = 2
    /\ det.files[2].readable
    /\ det.files[2].lines = <<"x = 1", "# todo: later">>
    /\ \E k \in DOMAIN det.out :
           /\ det.out[k].file_path = "b.py"
           /\ det.out[k].line_number = "2"
           /\ det.out[k].severity = "low"


\* C32: a checkpoint() call made while the pause-requested signal is not
\* raised never suspends: it increments the turn count and returns at once.
\* The caller becomes suspended only in a checkpoint() call and only when a
\* pause has been requested, and it stays suspended only while the pause
\* request stands.
C32_CheckpointSuspendsOnlyWhenPauseRequested ==
    [][/\ (Called("checkpoint") /\ ~pause_event =>
              /\ resume_waiter' = "none"
              /\ agent_turn_count' = agent_turn_count + 1
              /\ ret' \in {Bool(TRUE), Bool(FALSE)})
       /\ (resume_waiter # "pending" /\ resume_waiter' = "pending" =>
              Called("checkpoint") /\ pause_event)
       /\ (resume_waiter' = "pending" => pause_event')]_vars

\* checkpoint() has been called with no pause requested and has returned.
C32_Witness ==
    /\ last_call.op = "checkpoint"
    /\ ~pause_event
    /\ resume_waiter = "none"
    /\ agent_turn_count = 2
    /\ ret = Bool(TRUE)


\* The place of a detector in the order in which a pass runs the detectors.
DetectionRank(insight) ==
    CASE insight.bug_type = "linting_error" -> 1
      [] insight.bug_type = "test_failure" -> 2
      [] insight.bug_type = "todo_comment" -> 3
      [] insight.bug_type = "large_file" -> 4
      [] insight.bug_type \in {"missing_import", "import_error"} -> 5

InDetectionOrder(insights) ==
    \A i, j \in DOMAIN insights :
        i < j => DetectionRank(insights[i]) <= DetectionRank(insights[j])

\* The insights of the pass the policy loop has gone past.
PolicyDone ==
    SubSeq(det.insights, 1, Len(det.insights) - Len(bf_pending))

\* C33: within one pass every detector has finished before the policy acts
\* on any insight (until then nothing is paused or injected), and the policy
\* then goes through the insights in detection order (lint, test, TODO, large
\* file, import), so the insights the pass adds to the queue are in that
\* order.
C33_CollectThenProcessInOrder ==
    /\ det.phase # "done" =>
          /\ injected = <<>>
          /\ insights_queue = <<>>
          /\ agent_context = <<>>
          /\ ~pause_event
          /\ last_call.op \notin {"request_pause", "inject_insight",
                                  "request_resume"}
    /\ det.phase = "done" =>
          /\ InDetectionOrder(det.insights)
          /\ bf_pending = SubSeq(det.insights,
                                 Len(det.insights) - Len(bf_pending) + 1,
                                 Len(det.insights))
          /\ injected = SelectSeq(PolicyDone, Reported)
                            \o (IF bf_pc = "pause_sleep"
                                THEN <<Head(bf_pending)>> ELSE <<>>)
          /\ insights_queue = injected
          /\ InDetectionOrder(insights_queue)

\* A pass is over that put a lint insight, a test failure and an import
\* insight in the queue, in that order.
C33_Witness ==
    /\ bf_pc = "interval"
    /\ det.phase = "done"
    /\ Len(insights_queue) >= 3
    /\ \E i, j, k \in DOMAIN insights_queue :
           /\ i < j
           /\ j < k
           /\ insights_queue[i].bug_type = "linting_error"
           /\ insights_queue[j].bug_type = "test_failure"
           /\ insights_queue[k].bug_type \in {"missing_import", "import_error"}


\* The last n elements of a sequence.
Suffix(seq, n) == SubSeq(seq, Len(seq) - n + 1, Len(seq))

\* C34: in every reachable state the context is exactly the sequence of the
\* entries of all insights ever injected, in injection order; no step
\* shortens or reorders it (get_insights and get_context_summary leave it as
\* it is); and the queue is always a suffix of the injection sequence, namely
\* the insights injected since the last get_insights.
C34_ContextIsInjectionLog ==
    /\ [](/\ agent_context =
                 [k \in 1..Len(all_injected) |-> ContextEntry(all_injected[k])]
          /\ insights_queue = injected
          /\ Len(insights_queue) <= Len(all_injected)
          /\ insights_queue = Suffix(all_injected, Len(insights_queue)))
    /\ [][/\ Len(agent_context) <= Len(agent_context')
          /\ agent_context = SubSeq(agent_context', 1, Len(agent_context))
          /\ (Called("get_insights") \/ Called("get_context_summary"))
                 => agent_context' = agent_context]_vars

\* Two insights have been injected with a get_insights between them: the
\* context holds both and the queue the second only.
C34_Witness ==
    /\ Len(all_injected) = 2
    /\ all_injected[1] # all_injected[2]
    /\ Len(agent_context) = 2
    /\ insights_queue = <<all_injected[2]>>
    /\ drained = <<all_injected[1]>>


\* C35: in every reachable state is_paused is true exactly when pause_event
\* is up, and pause_reason holds a reason exactly when is_paused is true
\* (request_pause being called with a reason every time).
C35_PausedFlagEventAndReasonAgree ==
    /\ is_paused <=> pause_event
    /\ (pause_reason # None) <=> is_paused
    /\ is_paused => pause_reason \in Reasons

\* The controller has been paused, resumed and paused again, and holds the
\* reason of the second pause.
C35_Witness ==
    /\ last_call.op = "request_pause"
    /\ is_paused
    /\ pause_event
    /\ pause_reason = last_call.arg
    /\ agent_turn_count = 2
    /\ ~shutdown_event

\* C36: in every reachable state in which shutdown has not been called,
\* resume_event is up exactly when is_paused is false; a state in which
\* resume_event is up while is_paused is true is entered by a shutdown() step
\* only.
C36_MayProceedIffNotPaused ==
    /\ [](~shutdown_event => (resume_event <=> ~is_paused))
    /\ [][(~(resume_event /\ is_paused) /\ resume_event' /\ is_paused')
             => Called("shutdown")]_vars

\* shutdown() has been called on a paused controller: resume_event is up and
\* is_paused is still true.
C36_Witness ==
    /\ last_call.op = "shutdown"
    /\ shutdown_event
    /\ is_paused
    /\ resume_event


\* C37: under every interleaving of inject_insight and get_insights calls,
\* the lists the get_insights calls have returned, put one after the other in
\* call order, are a prefix of the injection sequence, and the rest of the
\* injection sequence is what the queue holds: every injected insight has
\* been returned by one get_insights call or is still waiting for one, none
\* is lost and none is returned twice.
C37_EveryInsightDrainedOnce ==
    /\ all_injected = drained \o insights_queue
    /\ Len(drained) <= Len(all_injected)
    /\ drained = SubSeq(all_injected, 1, Len(drained))

\* Two get_insights calls have returned one insight each, the second one
\* injected after the first call.
C37_Witness ==
    /\ last_call.op = "get_insights"
    /\ Len(drained) = 2
    /\ ret = List(<<drained[2]>>)
    /\ all_injected = drained
    /\ insights_queue = <<>>


\* C38: every pause the bug finder requests is matched by a resume in the
\* same pass.  A pass starts with the controller not paused; the controller
\* is paused only between the request_pause and the request_resume of one
\* insight, or for good when the task is cancelled in the sleep between the
\* two; and when a pass runs to its end, the controller is not paused and
\* resume_event is up.
C38_PassEndsResumed ==
    /\ [](bf_pc = "collecting" => ~is_paused)
    /\ [](is_paused => bf_pc \in {"inject_high", "pause_sleep", "cancelled"})
    /\ [][(bf_pc # "interval" /\ bf_pc' = "interval")
             => (~is_paused' /\ ~pause_event' /\ resume_event')]_vars

\* A pass in which the bug finder paused the controller for a high insight
\* has run to its end.
C38_Witness ==
    /\ bf_pc = "interval"
    /\ last_call.op = "policy_end"
    /\ \E k \in DOMAIN all_injected : PolicyBranch(all_injected[k]) = "pause"
    /\ ~is_paused
    /\ resume_event
    /\ ~shutdown_event


\* The last element of a non-empty sequence is x.
EndsWith(seq, x) == seq # <<>> /\ seq[Len(seq)] = x

\* C39: whenever the bug finder's request_resume releases a coding agent
\* parked in checkpoint() by the bug finder's pause, the insight the pause
\* was requested for has been injected already: it is the last insight
\* injected, its entry is the last of the context, and it is the last of the
\* queue unless a get_insights has taken it out.
C39_ReleasedAfterInjection ==
    [][(/\ Called("request_resume")
        /\ resume_waiter = "pending"
        /\ resume_waiter' = "done")
       => /\ bf_pc = "pause_sleep"
          /\ pause_reason = PolicyReason(Head(bf_pending))
          /\ EndsWith(all_injected, Head(bf_pending))
          /\ EndsWith(agent_context', ContextEntry(Head(bf_pending)))
          /\ \/ EndsWith(insights_queue', Head(bf_pending))
             \/ EndsWith(drained', Head(bf_pending))]_vars

\* The bug finder's request_resume has just released the parked coding agent
\* and the high insight is in the queue and in the context.
C39_Witness ==
    /\ last_call.op = "request_resume"
    /\ resume_waiter = "done"
    /\ ~is_paused
    /\ insights_queue # <<>>
    /\ PolicyBranch(insights_queue[Len(insights_queue)]) = "pause"
    /\ agent_context[Len(agent_context)] =
           ContextEntry(insights_queue[Len(insights_queue)])


====
